---- MODULE Spec2Model ----
(***************************************************************************)
(* The client side of SCRAM (mongoc-scram.c): the session structure, the   *)
(* secret cache and the three-turn conversation driven by                  *)
(* _mongoc_scram_step.  Byte strings are sequences of integers 0..255;     *)
(* text is the sequence of its ASCII codes.                                *)
(***************************************************************************)
EXTENDS Integers, Sequences, FiniteSets, TLC

(***************************************************************************)
(* Bytes and text                                                          *)
(***************************************************************************)

\* ASCII codes of the characters the code names in literals.
Ascii ==
  [comma |-> 44, eq |-> 61, minus |-> 45, plus |-> 43, slash |-> 47,
   colon |-> 58, zero |-> 48, nine |-> 57, space |-> 32,
   a |-> 97, b |-> 98, c |-> 99, e |-> 101, i |-> 105, m |-> 109,
   n |-> 110, o |-> 111, p |-> 112, r |-> 114, s |-> 115, u |-> 117,
   v |-> 118, w |-> 119, x |-> 120, g |-> 103, l |-> 108, q |-> 113,
   lpar |-> 40, rpar |-> 41, upA |-> 65, upZ |-> 90, lowz |-> 122]

\* A function over 1..n as a sequence in normal form.
Tup(f, n) == SubSeq(f, 1, n)

\* n zero bytes: the contents memset / bson_malloc0 / "= {0}" leave.
Zeros(n) == Tup([j \in 1..n |-> 0], n)

\* memcpy (buf, bytes, Len(bytes)) into a fixed-size array.
Put(buf, bytes) ==
  Tup([j \in 1..Len(buf) |-> IF j <= Len(bytes) THEN bytes[j] ELSE buf[j]],
      Len(buf))

\* The first n bytes of an array.
Take(buf, n) == SubSeq(buf, 1, n)

RECURSIVE BitXor(_, _)
BitXor(x, y) ==
  IF x = 0 THEN y
  ELSE IF y = 0 THEN x
  ELSE (((x % 2) + (y % 2)) % 2) + 2 * BitXor(x \div 2, y \div 2)

\* The C operator ^ on two bytes, tabulated.
XorTab == [x \in 0..255 |-> [y \in 0..255 |-> BitXor(x, y)]]

\* "%s:mongo:%s" between its two arguments.
MongoSep ==
  <<Ascii.colon, Ascii.m, Ascii.o, Ascii.n, Ascii.g, Ascii.o, Ascii.colon>>

\* What glibc's printf writes for a null %s argument.
NullText ==
  <<Ascii.lpar, Ascii.n, Ascii.u, Ascii.l, Ascii.l, Ascii.rpar>>

MONGOC_SCRAM_SERVER_KEY ==
  <<83, 101, 114, 118, 101, 114, 32, 75, 101, 121>>       \* "Server Key"

MONGOC_SCRAM_CLIENT_KEY ==
  <<67, 108, 105, 101, 110, 116, 32, 75, 101, 121>>       \* "Client Key"

(***************************************************************************)
(* Sizes                                                                   *)
(***************************************************************************)

MONGOC_SCRAM_SHA_1_HASH_SIZE == 20
MONGOC_SCRAM_SHA_256_HASH_SIZE == 32
MONGOC_SCRAM_HASH_MAX_SIZE == MONGOC_SCRAM_SHA_256_HASH_SIZE
MONGOC_SCRAM_B64_HASH_MAX_SIZE == 2 * MONGOC_SCRAM_HASH_MAX_SIZE
NonceSize == 24
EncodedNonceSize == 48
MinIterations == 4096

Algorithms == {"SHA_1", "SHA_256"}

_scram_hash_size(algorithm) ==
  IF algorithm = "SHA_1" THEN MONGOC_SCRAM_SHA_1_HASH_SIZE
  ELSE IF algorithm = "SHA_256" THEN MONGOC_SCRAM_SHA_256_HASH_SIZE
  ELSE 0

(***************************************************************************)
(* Base64 (mcommon_b64_ntop / mcommon_b64_pton)                            *)
(***************************************************************************)

B64Char(k) ==
  IF k < 26 THEN 65 + k
  ELSE IF k < 52 THEN 71 + k
  ELSE IF k < 62 THEN k - 4
  ELSE IF k = 62 THEN Ascii.plus
  ELSE Ascii.slash

\* The 6-bit value of a base64 character, -1 for any other byte.
B64Value(ch) ==
  IF ch >= 65 /\ ch <= 90 THEN ch - 65
  ELSE IF ch >= 97 /\ ch <= 122 THEN ch - 71
  ELSE IF ch >= 48 /\ ch <= 57 THEN ch + 4
  ELSE IF ch = Ascii.plus THEN 62
  ELSE IF ch = Ascii.slash THEN 63
  ELSE -1

RECURSIVE B64Encode(_)
B64Encode(bytes) ==
  IF Len(bytes) = 0 THEN <<>>
  ELSE IF Len(bytes) = 1 THEN
    <<B64Char(bytes[1] \div 4), B64Char((bytes[1] % 4) * 16),
      Ascii.eq, Ascii.eq>>
  ELSE IF Len(bytes) = 2 THEN
    <<B64Char(bytes[1] \div 4),
      B64Char((bytes[1] % 4) * 16 + (bytes[2] \div 16)),
      B64Char((bytes[2] % 16) * 4), Ascii.eq>>
  ELSE
    <<B64Char(bytes[1] \div 4),
      B64Char((bytes[1] % 4) * 16 + (bytes[2] \div 16)),
      B64Char((bytes[2] % 16) * 4 + (bytes[3] \div 64)),
      B64Char(bytes[3] % 64)>> \o B64Encode(SubSeq(bytes, 4, Len(bytes)))

\* mcommon_b64_ntop: the encoding and its length, or -1 when the encoding
\* and its terminating NUL do not fit in targsize bytes.
NtopResult(enc, targsize) ==
  IF Len(enc) + 1 > targsize THEN [len |-> -1, out |-> <<>>]
  ELSE [len |-> Len(enc), out |-> enc]

mcommon_b64_ntop(bytes, targsize) == NtopResult(B64Encode(bytes), targsize)

RECURSIVE B64Decode(_)
\* The bytes a base64 text decodes to; <<-1>> when it is not base64.
B64Decode(text) ==
  IF Len(text) = 0 THEN <<>>
  ELSE IF Len(text) < 4 THEN <<-1>>
  ELSE
    LET v1 == B64Value(text[1])
        v2 == B64Value(text[2])
        v3 == B64Value(text[3])
        v4 == B64Value(text[4])
        b1 == v1 * 4 + (v2 \div 16)
        b2 == (v2 % 16) * 16 + (v3 \div 4)
        b3 == (v3 % 4) * 64 + v4
    IN IF v1 < 0 \/ v2 < 0 THEN <<-1>>
       ELSE IF text[3] = Ascii.eq THEN
         IF Len(text) = 4 /\ text[4] = Ascii.eq /\ v2 % 16 = 0
         THEN <<b1>> ELSE <<-1>>
       ELSE IF v3 < 0 THEN <<-1>>
       ELSE IF text[4] = Ascii.eq THEN
         IF Len(text) = 4 /\ v3 % 4 = 0 THEN <<b1, b2>> ELSE <<-1>>
       ELSE IF v4 < 0 THEN <<-1>>
       ELSE LET rest == B64Decode(SubSeq(text, 5, Len(text)))
            IN IF rest = <<-1>> THEN <<-1>> ELSE <<b1, b2, b3>> \o rest

\* mcommon_b64_pton: the decoded bytes and their count, or -1 when the text
\* is not base64 or the bytes do not fit in targsize.
PtonResult(dec, targsize) ==
  IF dec = <<-1>> \/ Len(dec) > targsize THEN [len |-> -1, out |-> <<>>]
  ELSE [len |-> Len(dec), out |-> dec]

mcommon_b64_pton(text, targsize) == PtonResult(B64Decode(text), targsize)

(***************************************************************************)
(* The hash provider (mongoc_crypto_hmac, mongoc_crypto_hash,              *)
(* _mongoc_hex_md5): deterministic stand-ins of the right output sizes.    *)
(***************************************************************************)

RECURSIVE WeightedSum(_, _, _)
\* The sum of k * bytes[k] for k in lo..hi, modulo 251 (summed in halves).
WeightedSum(bytes, lo, hi) ==
  IF lo > hi THEN 0
  ELSE IF lo = hi THEN (lo * bytes[lo]) % 251
  ELSE LET mid == (lo + hi) \div 2
       IN (WeightedSum(bytes, lo, mid) + WeightedSum(bytes, mid + 1, hi)) % 251

\* A position-weighted checksum of the first n bytes.
Checksum(bytes, n) == WeightedSum(bytes, 1, n)

Digest(seed, size) ==
  Tup([j \in 1..size |-> (seed * j + 7 * j + size) % 256], size)

\* The HMAC of data under a key whose checksum is keysum.
KeyedHmac(algorithm, keysum, data) ==
  Digest((31 * keysum + 17 * Checksum(data, Len(data))
          + _scram_hash_size(algorithm)) % 251,
         _scram_hash_size(algorithm))

mongoc_crypto_hmac(algorithm, key, data) ==
  KeyedHmac(algorithm, Checksum(key, Len(key)), data)

mongoc_crypto_hash(algorithm, data) ==
  LET size == _scram_hash_size(algorithm)
      seed == (13 * Checksum(data, Len(data)) + size + 5) % 251
  IN Digest(seed, size)

HexChar(k) == IF k < 10 THEN Ascii.zero + k ELSE Ascii.a + (k - 10)

\* Lower-case hex of a 16-byte digest: 32 characters.
_mongoc_hex_md5(text) ==
  LET seed == Checksum(text, Len(text))
  IN Tup([j \in 1..32 |-> HexChar((seed * j + 3 * j + (seed \div 16)) % 16)], 32)

(***************************************************************************)
(* bson_ascii_strtoll and the (int) conversion of its result.  A 64-bit    *)
(* magnitude is four 16-bit limbs, least significant first.                *)
(***************************************************************************)

Limb == 65536

IsDigit(ch) == ch >= Ascii.zero /\ ch <= Ascii.nine

\* mag * 10 + d; over is set once the magnitude no longer fits 64 bits.
MulAdd(acc, d) ==
  LET t1 == acc.mag[1] * 10 + d
      t2 == acc.mag[2] * 10 + (t1 \div Limb)
      t3 == acc.mag[3] * 10 + (t2 \div Limb)
      t4 == acc.mag[4] * 10 + (t3 \div Limb)
  IN [mag |-> <<t1 % Limb, t2 % Limb, t3 % Limb, t4 % Limb>>,
      over |-> acc.over \/ t4 >= Limb]

RECURSIVE ScanDigits(_, _, _)
\* Consumes the digits of text from position k on.
ScanDigits(text, k, acc) ==
  IF k > Len(text) \/ ~IsDigit(text[k]) THEN [acc |-> acc, end |-> k]
  ELSE ScanDigits(text, k + 1, MulAdd(acc, text[k] - Ascii.zero))

\* The low 32 bits of a two's complement value as a C int.
ToInt32(hi, lo) ==
  IF hi >= Limb \div 2 THEN (hi - Limb) * Limb + lo ELSE hi * Limb + lo

\* The low 32 bits of -(hi * 65536 + lo).
Negate32(hi, lo) ==
  IF lo = 0 THEN <<(Limb - hi) % Limb, 0>> ELSE <<Limb - 1 - hi, Limb - lo>>

\* (int) bson_ascii_strtoll (text, &tmp, 10): the converted value and the
\* position tmp is left at (Len(text) + 1 is the terminating NUL).  Out of
\* range input saturates to INT64_MAX / INT64_MIN before the conversion.
bson_ascii_strtoll_int(text) ==
  LET neg == Len(text) >= 1 /\ text[1] = Ascii.minus
      signed == Len(text) >= 1 /\ text[1] \in {Ascii.minus, Ascii.plus}
      first == IF signed THEN 2 ELSE 1
      scan == ScanDigits(text, first,
                         [mag |-> <<0, 0, 0, 0>>, over |-> FALSE])
      mag == scan.acc.mag
      \* |INT64_MIN| = 2^63 is representable only for a negative number
      tooBig == scan.acc.over
                \/ (mag[4] >= Limb \div 2
                    /\ ~(neg /\ mag = <<0, 0, 0, Limb \div 2>>))
      low == IF neg THEN Negate32(mag[2], mag[1]) ELSE <<mag[2], mag[1]>>
  IN IF scan.end = first
     THEN [value |-> 0, end |-> 1]              \* no digits: nothing consumed
     ELSE IF tooBig
     THEN [value |-> IF neg THEN 0 ELSE -1, end |-> scan.end]
     ELSE [value |-> ToInt32(low[1], low[2]), end |-> scan.end]

(***************************************************************************)
(* Memory: the heap cells behind the session's pointers.                   *)
(***************************************************************************)

NULL == 0
MaxHeld == 1

\* Cells: user, pass, hashed_password, the session's cache entry and its
\* string, the prepared password local to step 2, and an entry and a string
\* for each entry the caller holds.
HeapSize == 6 + 2 * MaxHeld
Addrs == 1..HeapSize

ZeroEntry ==
  [hashed_password |-> NULL,
   decoded_salt |-> Zeros(MONGOC_SCRAM_B64_HASH_MAX_SIZE),
   iterations |-> 0,
   client_key |-> Zeros(MONGOC_SCRAM_HASH_MAX_SIZE),
   server_key |-> Zeros(MONGOC_SCRAM_HASH_MAX_SIZE),
   salted_password |-> Zeros(MONGOC_SCRAM_HASH_MAX_SIZE)]

FreeCell == [kind |-> "free", val |-> <<>>, ent |-> ZeroEntry]

IsLive(h, a) == a \in DOMAIN h /\ h[a].kind # "free"

FreeCount(h) == Cardinality({a \in DOMAIN h : h[a].kind = "free"})

\* The cell bson_malloc hands out: the lowest free one.
Alloc(h) ==
  CHOOSE a \in DOMAIN h :
    h[a].kind = "free" /\ \A b \in DOMAIN h : h[b].kind = "free" => a <= b

\* The characters of the C string at a (what strlen / strcmp / strdup see).
StrVal(h, a) == IF a \in DOMAIN h THEN h[a].val ELSE <<>>

EntryAt(h, a) == IF a \in DOMAIN h THEN h[a].ent ELSE ZeroEntry

\* bson_strdup: a fresh copy, NULL for NULL.
bson_strdup(h, text, isNull) ==
  IF isNull THEN [heap |-> h, ret |-> NULL]
  ELSE LET a == Alloc(h)
       IN [heap |-> [h EXCEPT ![a] = [kind |-> "str", val |-> text,
                                      ent |-> ZeroEntry]],
           ret |-> a]

\* bson_free: the cell is released with its contents as they are.
bson_free(h, a) ==
  IF a = NULL THEN h ELSE [h EXCEPT ![a].kind = "free"]

\* bson_zero_free (mem, strlen (mem)): zeroed over its length, then released.
bson_zero_free(h, a) ==
  IF a = NULL THEN h
  ELSE [h EXCEPT ![a] = [kind |-> "free", val |-> Zeros(Len(h[a].val)),
                         ent |-> h[a].ent]]

(***************************************************************************)
(* The secret cache                                                        *)
(***************************************************************************)

_mongoc_scram_cache_apply_secrets(cache, scram) ==
  [scram EXCEPT !.client_key = cache.client_key,
                !.server_key = cache.server_key,
                !.salted_password = cache.salted_password]

\* A copy that takes the source's fields as they are, the hashed_password
\* pointer with them.
ShallowCacheCopy(h, cache) ==
  IF cache = NULL THEN [heap |-> h, ret |-> NULL]
  ELSE LET ret == Alloc(h)
       IN [heap |-> [h EXCEPT ![ret] = [kind |-> "cache", val |-> <<>>,
                                        ent |-> EntryAt(h, cache)]],
           ret |-> ret]

_mongoc_scram_cache_copy(h, cache) ==
  IF cache = NULL THEN [heap |-> h, ret |-> NULL]
  ELSE
    LET src == EntryAt(h, cache)
        ret == Alloc(h)
        h1 == [h EXCEPT ![ret] = [kind |-> "cache", val |-> <<>>,
                                  ent |-> ZeroEntry]]
        dup == bson_strdup(h1, StrVal(h1, src.hashed_password),
                           src.hashed_password = NULL)
    IN [heap |-> [dup.heap EXCEPT ![ret].ent =
                    [hashed_password |-> dup.ret,
                     decoded_salt |-> src.decoded_salt,
                     iterations |-> src.iterations,
                     client_key |-> src.client_key,
                     server_key |-> src.server_key,
                     salted_password |-> src.salted_password]],
        ret |-> ret]

_mongoc_scram_cache_destroy(h, cache) ==
  LET hp == EntryAt(h, cache).hashed_password
      h1 == IF hp # NULL THEN bson_zero_free(h, hp) ELSE h
  IN bson_free(h1, cache)

\* A comparison of the salts over hash_size - 4 bytes only.
HasPresecretsSaltPrefix(h, cache, scram) ==
  LET c == EntryAt(h, cache)
      size == _scram_hash_size(scram.algorithm) - 4
  IN /\ c.hashed_password # NULL
     /\ scram.hashed_password # NULL
     /\ StrVal(h, c.hashed_password) = StrVal(h, scram.hashed_password)
     /\ c.iterations = scram.iterations
     /\ SubSeq(c.decoded_salt, 1, size) = SubSeq(scram.decoded_salt, 1, size)

_mongoc_scram_cache_has_presecrets(h, cache, scram) ==
  LET c == EntryAt(h, cache)
  IN /\ c.hashed_password # NULL
     /\ scram.hashed_password # NULL
     /\ StrVal(h, c.hashed_password) = StrVal(h, scram.hashed_password)
     /\ c.iterations = scram.iterations
     /\ c.decoded_salt = scram.decoded_salt

_mongoc_scram_get_cache(h, scram) == _mongoc_scram_cache_copy(h, scram.cache)

_mongoc_scram_set_cache(h, scram, cache) ==
  LET h1 == IF scram.cache # NULL
            THEN _mongoc_scram_cache_destroy(h, scram.cache) ELSE h
      cp == _mongoc_scram_cache_copy(h1, cache)
  IN [heap |-> cp.heap, scram |-> [scram EXCEPT !.cache = cp.ret]]

_mongoc_scram_set_pass(h, scram, pass, isNull) ==
  LET h1 == IF scram.pass # NULL THEN bson_zero_free(h, scram.pass) ELSE h
      dup == bson_strdup(h1, pass, isNull)
  IN [heap |-> dup.heap, scram |-> [scram EXCEPT !.pass = dup.ret]]

_mongoc_scram_set_user(h, scram, user, isNull) ==
  LET h1 == bson_free(h, scram.user)
      dup == bson_strdup(h1, user, isNull)
  IN [heap |-> dup.heap, scram |-> [scram EXCEPT !.user = dup.ret]]

\* memset (scram, 0, sizeof *scram): every field zero, every pointer NULL.
ZeroScram ==
  [step |-> 0, user |-> NULL, pass |-> NULL, hashed_password |-> NULL,
   decoded_salt |-> Zeros(MONGOC_SCRAM_B64_HASH_MAX_SIZE),
   iterations |-> 0,
   client_key |-> Zeros(MONGOC_SCRAM_HASH_MAX_SIZE),
   server_key |-> Zeros(MONGOC_SCRAM_HASH_MAX_SIZE),
   salted_password |-> Zeros(MONGOC_SCRAM_HASH_MAX_SIZE),
   encoded_nonce |-> <<>>, encoded_nonce_len |-> 0,
   auth_message |-> <<>>, auth_messagemax |-> 0, auth_messagelen |-> 0,
   algorithm |-> "none", cache |-> NULL]

_mongoc_scram_init(algo) == [ZeroScram EXCEPT !.algorithm = algo]

_mongoc_scram_destroy(h, scram) ==
  LET h1 == bson_free(h, scram.user)
      h2 == IF scram.pass # NULL THEN bson_zero_free(h1, scram.pass) ELSE h1
      h3 == IF scram.hashed_password # NULL
            THEN bson_zero_free(h2, scram.hashed_password) ELSE h2
      h4 == IF scram.cache # NULL
            THEN _mongoc_scram_cache_destroy(h3, scram.cache) ELSE h3
  IN [heap |-> h4, scram |-> ZeroScram]

\* An update that leaves the salted password out of the new entry.
UpdateCacheWithoutSaltedPassword(h, scram) ==
  LET h1 == IF scram.cache # NULL
            THEN _mongoc_scram_cache_destroy(h, scram.cache) ELSE h
      cache == Alloc(h1)
      h2 == [h1 EXCEPT ![cache] = [kind |-> "cache", val |-> <<>>,
                                   ent |-> ZeroEntry]]
      dup == bson_strdup(h2, StrVal(h2, scram.hashed_password),
                         scram.hashed_password = NULL)
  IN [heap |-> [dup.heap EXCEPT ![cache].ent =
                  [hashed_password |-> dup.ret,
                   decoded_salt |-> scram.decoded_salt,
                   iterations |-> scram.iterations,
                   client_key |-> scram.client_key,
                   server_key |-> scram.server_key,
                   salted_password |-> Zeros(MONGOC_SCRAM_HASH_MAX_SIZE)]],
      scram |-> [scram EXCEPT !.cache = cache]]

_mongoc_scram_update_cache(h, scram) ==
  LET h1 == IF scram.cache # NULL
            THEN _mongoc_scram_cache_destroy(h, scram.cache) ELSE h
      cache == Alloc(h1)
      h2 == [h1 EXCEPT ![cache] = [kind |-> "cache", val |-> <<>>,
                                   ent |-> ZeroEntry]]
      dup == bson_strdup(h2, StrVal(h2, scram.hashed_password),
                         scram.hashed_password = NULL)
  IN [heap |-> [dup.heap EXCEPT ![cache].ent =
                  [hashed_password |-> dup.ret,
                   decoded_salt |-> scram.decoded_salt,
                   iterations |-> scram.iterations,
                   client_key |-> scram.client_key,
                   server_key |-> scram.server_key,
                   salted_password |-> scram.salted_password]],
      scram |-> [scram EXCEPT !.cache = cache]]

(***************************************************************************)
(* What the caller, the random source and the server supply                *)
(***************************************************************************)

UserU == <<Ascii.u>>
PassP == <<Ascii.p>>

\* A password that reads like the SHA-1 hashed form of (UserU, PassP).
PassH == _mongoc_hex_md5(UserU \o MongoSep \o PassP)

Passwords == {PassP, PassH}

\* User names a caller may give: none, one with nothing to escape, and one
\* with a comma, an equals sign and the text of an escape in it.
UserEmpty == <<>>
UserCommaEq == <<Ascii.comma, Ascii.eq, 50, 67>>        \* ",=2C"
Users == {UserEmpty, UserU, UserCommaEq}

\* Passwords on both sides of what SASLprep lets through without ICU.
PassEdge == <<Ascii.space, 126>>
PassPlain == {PassP, PassEdge}
PassControl == {<<Ascii.p, 31>>, <<127, Ascii.p>>, <<Ascii.p, 200>>, <<1>>, <<255>>}

Nonce1 == Tup([j \in 1..NonceSize |-> 3 * j], NonceSize)

\* The server's salt: hash_size - 4 bytes.
Salt16 == Tup([j \in 1..16 |-> 16 + j], 16)
SaltOf(algorithm) ==
  IF algorithm = "SHA_1" THEN Salt16 ELSE Salt16 \o Zeros(12)

(***************************************************************************)
(* Errors and results                                                      *)
(***************************************************************************)

NoError == [domain |-> "none", code |-> "none", msg |-> "", arg |-> <<>>]

\* bson_set_error (error, MONGOC_ERROR_SCRAM, code, msg, arg)
ScramError(code, msg, arg) ==
  [domain |-> "SCRAM", code |-> code, msg |-> msg, arg |-> arg]

ProtocolError(msg) == ScramError("PROTOCOL_ERROR", msg, <<>>)

\* What a call leaves behind when it returns; hi records whether the call
\* ran _mongoc_scram_salt_password.
Res(scram, h, rval, error, outbuf, outbuflen) ==
  [scram |-> scram, heap |-> h, rval |-> rval, error |-> error,
   outbuf |-> outbuf, outbuflen |-> outbuflen, crash |-> FALSE, hi |-> FALSE]

\* The call does not return: the process is gone.
CrashRes(scram, h, error, outbuf, outbuflen) ==
  [scram |-> scram, heap |-> h, rval |-> FALSE, error |-> error,
   outbuf |-> outbuf, outbuflen |-> outbuflen, crash |-> TRUE, hi |-> FALSE]

(***************************************************************************)
(* Step 1                                                                  *)
(***************************************************************************)

\* A write that does not look at the room left.
BufWriteUnchecked(src, src_len, outbuf, outbufmax, outbuflen) ==
  LET n == IF src_len < 0 THEN Len(src) ELSE src_len
  IN [ok |-> TRUE, buf |-> Take(outbuf, outbuflen) \o Take(src, n),
      len |-> outbuflen + n]

_mongoc_scram_buf_write(src, src_len, outbuf, outbufmax, outbuflen) ==
  LET n == IF src_len < 0 THEN Len(src) ELSE src_len
  IN IF outbuflen + n >= outbufmax
     THEN [ok |-> FALSE, buf |-> outbuf, len |-> outbuflen]
     ELSE [ok |-> TRUE, buf |-> Take(outbuf, outbuflen) \o Take(src, n),
           len |-> outbuflen + n]

RECURSIVE WriteAll(_, _, _, _)
\* Successive _mongoc_scram_buf_write calls, stopping at the first failure.
WriteAll(pieces, k, outbufmax, w) ==
  IF k > Len(pieces) \/ ~w.ok THEN w
  ELSE WriteAll(pieces, k + 1, outbufmax,
                _mongoc_scram_buf_write(pieces[k].src, pieces[k].len,
                                        w.buf, outbufmax, w.len))

Piece(src, len) == [src |-> src, len |-> len]

\* The switch over the bytes of the user name.
EscapedUser(user) ==
  [k \in 1..Len(user) |->
     IF user[k] = Ascii.comma THEN Piece(<<Ascii.eq, 50, 67>>, -1)    \* "=2C"
     ELSE IF user[k] = Ascii.eq THEN Piece(<<Ascii.eq, 51, 68>>, -1)  \* "=3D"
     ELSE Piece(<<user[k]>>, 1)]

ClientFirstHead == <<Ascii.n, Ascii.comma, Ascii.comma, Ascii.n, Ascii.eq>>
ClientFirstNonceKey == <<Ascii.comma, Ascii.r, Ascii.eq>>

\* The end of step 1, the auth message written (a2).
StartReturn(scram, h, error, w, a2) ==
  IF ~a2.ok
  THEN Res([scram EXCEPT !.auth_message = a2.buf, !.auth_messagelen = a2.len],
           h, FALSE,
           ProtocolError("SCRAM Failure: could not buffer auth message in sasl step1"),
           w.buf, w.len)
  ELSE Res([scram EXCEPT !.auth_message = a2.buf, !.auth_messagelen = a2.len],
           h, TRUE, error, w.buf, w.len)

\* The comma behind the client-first-message-bare in the auth message.
StartAuthComma(scram, h, error, w, a1) ==
  StartReturn(scram, h, error, w,
              IF a1.ok
              THEN _mongoc_scram_buf_write(<<Ascii.comma>>, -1, a1.buf,
                                           scram.auth_messagemax, a1.len)
              ELSE a1)

\* outbuf written (w): the auth message starts with outbuf + 3.
StartAuthMessage(scram, h, error, w) ==
  IF ~w.ok
  THEN Res(scram, h, FALSE,
           ProtocolError("SCRAM Failure: could not buffer sasl step1"),
           w.buf, w.len)
  ELSE StartAuthComma(scram, h, error, w,
         _mongoc_scram_buf_write(SubSeq(w.buf, 4, w.len), w.len - 3,
                                 scram.auth_message, scram.auth_messagemax,
                                 scram.auth_messagelen))

\* The nonce encoded (enc): "n,,n=", the escaped user, ",r=", the nonce.
StartWrite(scram, h, outbuf, outbufmax, outbuflen, error, enc) ==
  IF enc.len = -1
  THEN Res([scram EXCEPT !.encoded_nonce_len = enc.len,
                         !.encoded_nonce = enc.out],
           h, FALSE, ProtocolError("SCRAM Failure: could not encode nonce"),
           outbuf, outbuflen)
  ELSE StartAuthMessage(
         [scram EXCEPT !.encoded_nonce_len = enc.len,
                       !.encoded_nonce = enc.out],
         h, error,
         WriteAll(<<Piece(ClientFirstHead, -1)>>
                    \o EscapedUser(StrVal(h, scram.user))
                    \o <<Piece(ClientFirstNonceKey, -1),
                         Piece(enc.out, enc.len)>>,
                  1, outbufmax,
                  [ok |-> TRUE, buf |-> outbuf, len |-> outbuflen]))

\* The auth message buffer allocated: a fresh buffer of outbufmax bytes;
\* auth_messagelen is not touched.
StartNonce(scram, h, outbuf, outbufmax, outbuflen, error, rand) ==
  IF ~rand.ok
  THEN Res(scram, h, FALSE,
           ProtocolError("SCRAM Failure: could not generate a cryptographically secure nonce in sasl step 1"),
           outbuf, outbuflen)
  ELSE StartWrite(scram, h, outbuf, outbufmax, outbuflen, error,
                  mcommon_b64_ntop(rand.bytes, EncodedNonceSize))

\* rand: what _mongoc_rand_bytes did, [ok, bytes].
_mongoc_scram_start(scram, h, outbuf, outbufmax, outbuflen, error, rand) ==
  IF scram.user = NULL
  THEN Res(scram, h, FALSE,
           ProtocolError("SCRAM Failure: username is not set"),
           outbuf, outbuflen)
  ELSE StartNonce([scram EXCEPT
                     !.auth_message = Zeros(scram.auth_messagelen),
                     !.auth_messagemax = outbufmax],
                  h, outbuf, outbufmax, outbuflen, error, rand)

(***************************************************************************)
(* Key derivation                                                          *)
(***************************************************************************)

XorBytes(x, y, n) == Tup([k \in 1..n |-> XorTab[x[k]][y[k]]], n)

\* A loop body that keeps the last digest instead of the accumulated XOR.
HiXorOverwrite(algorithm, digest, output) == <<digest, digest>>

\* intermediate_digest xored into output.
HiXor(algorithm, digest, output) ==
  <<digest, XorBytes(output, digest, _scram_hash_size(algorithm))>>

\* One pass of the loop body: st = <<intermediate_digest, output>>.  The
\* password is the key of every pass: the provider is handed its checksum.
HiBody(algorithm, keysum, st) ==
  HiXor(algorithm, KeyedHmac(algorithm, keysum, st[1]), st[2])

RECURSIVE HiLoop(_, _, _, _)
\* The loop body applied n times in order (evaluated in two halves so that
\* the evaluation stays shallow).
HiLoop(algorithm, keysum, n, st) ==
  IF n <= 0 THEN st
  ELSE IF n = 1 THEN HiBody(algorithm, keysum, st)
  ELSE LET half == HiLoop(algorithm, keysum, n \div 2, st)
       IN IF Len(half) = 2
          THEN HiLoop(algorithm, keysum, n - (n \div 2), half)
          ELSE half

\* The loop from the first digest (u1) on.
HiFrom(algorithm, password, iterations, u1) ==
  HiLoop(algorithm, Checksum(password, Len(password)), iterations - 1,
         <<u1, u1>>)[2]

\* The first hash_size bytes of output when the loop is done.
Hi(algorithm, password, salt, salt_len, iterations) ==
  HiFrom(algorithm, password, iterations,
         mongoc_crypto_hmac(algorithm, password,
                            Take(Take(salt, salt_len) \o <<0, 0, 0, 1>>,
                                 _scram_hash_size(algorithm))))

\* The derivations the conversations of this model ask for, computed once.
HiInputs ==
  {<<"SHA_1", _mongoc_hex_md5(u \o MongoSep \o p), SaltOf("SHA_1"),
     MinIterations>> : u \in {UserU, NullText}, p \in Passwords \cup {NullText}}
  \cup {<<"SHA_1", _mongoc_hex_md5(u \o MongoSep \o p), SaltOf("SHA_1"),
          MinIterations>> : u \in Users, p \in {PassP, NullText}}
  \cup {<<"SHA_256", p, SaltOf("SHA_256"), MinIterations>> :
          p \in Passwords \cup PassPlain}

HiTable == [t \in HiInputs |-> Hi(t[1], t[2], t[3], Len(t[3]), t[4])]

_mongoc_scram_salt_password(scram, password, salt, salt_len, iterations) ==
  LET t == <<scram.algorithm, password, Take(salt, salt_len), iterations>>
      output == IF t \in HiInputs THEN HiTable[t]
                ELSE Hi(scram.algorithm, password, salt, salt_len, iterations)
  IN [scram EXCEPT !.salted_password = Put(@, output)]

\* The proof encoded (r) behind what outbuf holds.
ProofWritten(scram, outbuf, outbuflen, r) ==
  IF r.len = -1
  THEN [ok |-> FALSE, scram |-> scram, outbuf |-> outbuf,
        outbuflen |-> outbuflen]
  ELSE [ok |-> TRUE, scram |-> scram,
        outbuf |-> Take(outbuf, outbuflen) \o r.out,
        outbuflen |-> outbuflen + r.len]

\* ClientProof := ClientKey XOR HMAC(H(ClientKey), AuthMessage)
ClientProof(scram, size) ==
  XorBytes(scram.client_key,
           mongoc_crypto_hmac(scram.algorithm,
                              mongoc_crypto_hash(scram.algorithm,
                                                 Take(scram.client_key, size)),
                              Take(scram.auth_message, scram.auth_messagelen)),
           size)

\* scram.client_key is in place.
ProofFromKey(scram, outbuf, outbufmax, outbuflen) ==
  ProofWritten(scram, outbuf, outbuflen,
               mcommon_b64_ntop(ClientProof(scram,
                                            _scram_hash_size(scram.algorithm)),
                                outbufmax - outbuflen))

_mongoc_scram_generate_client_proof(scram, outbuf, outbufmax, outbuflen) ==
  ProofFromKey(
    IF scram.client_key[1] = 0
    THEN [scram EXCEPT !.client_key =
            Put(@, mongoc_crypto_hmac(
                     scram.algorithm,
                     Take(scram.salted_password,
                          _scram_hash_size(scram.algorithm)),
                     MONGOC_SCRAM_CLIENT_KEY))]
    ELSE scram,
    outbuf, outbufmax, outbuflen)

(***************************************************************************)
(* The attribute parser shared by steps 2 and 3.  mem is inbuf followed by *)
(* the bytes that happen to lie behind it; a read behind those is a fault. *)
(***************************************************************************)

NoVals(keys) == [k \in keys |-> [set |-> FALSE, val |-> <<>>]]

\* memchr (mem + from - 1, ',', to - from + 1): the position found, 0 if none.
FindComma(mem, from, to) ==
  LET found == {c \in from..to : mem[c] = Ascii.comma}
  IN IF found = {} THEN 0
     ELSE CHOOSE c \in found : \A d \in found : c <= d

RECURSIVE ParseLoop(_, _, _, _, _)
\* The for loop at ptr (1-based) with the values found so far.
ParseLoop(mem, inbuflen, keys, ptr, vals) ==
  IF ptr > inbuflen THEN [status |-> "ok", key |-> 0, vals |-> vals]
  ELSE IF mem[ptr] \notin keys
  THEN [status |-> "unknown", key |-> mem[ptr], vals |-> vals]
  ELSE IF ptr + 1 > Len(mem)
  THEN [status |-> "fault", key |-> mem[ptr], vals |-> vals]
  ELSE IF mem[ptr + 1] # Ascii.eq
  THEN [status |-> "invalid", key |-> mem[ptr], vals |-> vals]
  ELSE
    LET start == ptr + 2
        \* past the end the length handed to memchr wraps around and
        \* the search runs on through whatever follows
        last == IF start > inbuflen + 1 THEN Len(mem) ELSE inbuflen
        next_comma == FindComma(mem, start, last)
        val_end == IF next_comma # 0 THEN next_comma - 1 ELSE inbuflen
        vals1 == [vals EXCEPT ![mem[ptr]] =
                    [set |-> TRUE, val |-> SubSeq(mem, start, val_end)]]
    IN IF start > inbuflen + 1 /\ next_comma = 0
       THEN [status |-> "fault", key |-> mem[ptr], vals |-> vals]
       ELSE IF next_comma # 0
       THEN ParseLoop(mem, inbuflen, keys, next_comma + 1, vals1)
       ELSE [status |-> "ok", key |-> 0, vals |-> vals1]

ParseAttrs(inbuf, past, keys) ==
  ParseLoop(inbuf \o past, Len(inbuf), keys, 1, NoVals(keys))

(***************************************************************************)
(* Password preparation                                                    *)
(***************************************************************************)

\* A test that lets the DEL character through.
SaslPrepRequiredAbove127(str) ==
  \E k \in 1..Len(str) : str[k] < 32 \/ str[k] > 127

_mongoc_sasl_prep_required(str) ==
  \E k \in 1..Len(str) : str[k] < 32 \/ str[k] >= 127

\* Built without MONGOC_ENABLE_ICU.
_mongoc_sasl_prep(in_utf8, error) ==
  IF _mongoc_sasl_prep_required(in_utf8)
  THEN [null |-> TRUE, text |-> <<>>,
        error |-> ProtocolError("SCRAM Failure: ICU required to SASLPrep password")]
  ELSE [null |-> FALSE, text |-> in_utf8, error |-> error]

\* No prepared password: the call faults (crash) or SASLprep refused.
NotPrepared(h, crash, error) ==
  [crash |-> crash, null |-> TRUE, text |-> <<>>, error |-> error,
   heap |-> h, addr |-> NULL]

\* The local hashed_password is the string in the cell dup.ret.
PreparedAt(dup, error) ==
  [crash |-> FALSE, null |-> FALSE, text |-> StrVal(dup.heap, dup.ret),
   error |-> error, heap |-> dup.heap, addr |-> dup.ret]

\* bson_zero_free (tmp, strlen (tmp)) once the hash is in its own string.
FreedTmp(dup, tmp, error) ==
  PreparedAt([heap |-> bson_zero_free(dup.heap, tmp), ret |-> dup.ret], error)

\* tmp, the string bson_strdup_printf built, is hashed into a string of its
\* own.
HashedTmp(tmp, error) ==
  FreedTmp(bson_strdup(tmp.heap, _mongoc_hex_md5(StrVal(tmp.heap, tmp.ret)),
                       FALSE),
           tmp.ret, error)

\* The head of _mongoc_scram_step2: the local hashed_password.  nullText
\* says whether printf writes "(null)" for a null string or faults.
PreparePassword(scram, h, error, nullText) ==
  LET Arg(a) == IF a = NULL THEN NullText ELSE StrVal(h, a)
  IN IF scram.algorithm = "SHA_1"
     THEN IF (scram.user = NULL \/ scram.pass = NULL) /\ ~nullText
          THEN NotPrepared(h, TRUE, error)
          ELSE HashedTmp(bson_strdup(h, Arg(scram.user) \o MongoSep
                                        \o Arg(scram.pass), FALSE),
                         error)
     ELSE IF scram.pass = NULL     \* strlen (NULL)
     THEN NotPrepared(h, TRUE, error)
     ELSE LET prep == _mongoc_sasl_prep(StrVal(h, scram.pass), error)
          IN IF prep.null THEN NotPrepared(h, FALSE, prep.error)
             ELSE PreparedAt(bson_strdup(h, prep.text, FALSE), prep.error)

(***************************************************************************)
(* Step 2                                                                  *)
(***************************************************************************)

ClientFinalHead ==
  <<Ascii.c, Ascii.eq, Ascii.b, Ascii.i, Ascii.w, Ascii.s, Ascii.comma,
    Ascii.r, Ascii.eq>>                                      \* "c=biws,r="
ClientFinalProofKey == <<Ascii.comma, Ascii.p, Ascii.eq>>   \* ",p="

\* bson_cmp_less_us (val_r_len, encoded_nonce_len) || mongoc_memcmp (...)
NonceNotRepeated(scram, val_r) ==
  \/ Len(val_r) < scram.encoded_nonce_len
  \/ Take(val_r, scram.encoded_nonce_len)
       # Take(scram.encoded_nonce, scram.encoded_nonce_len)

\* The end of step 2: the proof is behind ",p=" in outbuf.  ran says
\* whether the salted password had to be computed.
Step2Return(h, error, ran, proof) ==
  [Res(proof.scram, h, TRUE, error, proof.outbuf, proof.outbuflen) EXCEPT !.hi = ran]

\* The secrets in place, from the cache or none yet.
Step2Proof(scram, h, hashed_password, decoded_salt, decoded_salt_len, iterations, error, outbuf, outbufmax, outbuflen) ==
  Step2Return(h, error, scram.salted_password[1] = 0,
              _mongoc_scram_generate_client_proof(
                IF scram.salted_password[1] = 0
                THEN _mongoc_scram_salt_password(scram, hashed_password,
                                                 decoded_salt,
                                                 decoded_salt_len, iterations)
                ELSE scram,
                outbuf, outbufmax, outbuflen))

\* The presecrets saved in scram: a cache entry that has them gives its
\* secrets.
Step2Secrets(scram, h, hashed_password, decoded_salt, decoded_salt_len, iterations, error, outbuf, outbufmax, outbuflen) ==
  Step2Proof(IF scram.cache # NULL
                /\ _mongoc_scram_cache_has_presecrets(h, scram.cache, scram)
             THEN _mongoc_scram_cache_apply_secrets(EntryAt(h, scram.cache),
                                                    scram)
             ELSE scram,
             h, hashed_password, decoded_salt, decoded_salt_len, iterations,
             error, outbuf, outbufmax, outbuflen)

\* hashed_password duplicated (dup).
Step2Saved(scram, hashed_password, decoded_salt, decoded_salt_len, iterations, error, outbuf, outbufmax, outbuflen, dup) ==
  Step2Secrets([scram EXCEPT !.hashed_password = dup.ret,
                             !.iterations = iterations,
                             !.decoded_salt = decoded_salt],
               dup.heap, hashed_password, decoded_salt, decoded_salt_len,
               iterations, error, outbuf, outbufmax, outbuflen)

\* From "Save the presecrets for caching" to the end: every check passed.
Step2Derive(scram, h, hashed_password, decoded_salt, decoded_salt_len, iterations, error, outbuf, outbufmax, outbuflen) ==
  Step2Saved(scram, hashed_password, decoded_salt, decoded_salt_len,
             iterations, error, outbuf, outbufmax, outbuflen,
             bson_strdup(h, hashed_password, FALSE))

\* Checks that save the salt and the iteration count before they test the
\* iteration count.
Step2ChecksSavingFirst(scram, h, hashed_password, val_i, error, out, outbufmax, salt, iter) ==
  IF salt.len = -1
  THEN Res(scram, h, FALSE,
           ProtocolError("SCRAM Failure: unable to decode salt in sasl step2"),
           out.buf, out.len)
  ELSE IF _scram_hash_size(scram.algorithm) - 4 # salt.len
  THEN Res(scram, h, FALSE,
           ScramError("PROTOCOL_ERROR",
                      "SCRAM Failure: invalid salt length of %d in sasl step2",
                      <<salt.len>>),
           out.buf, out.len)
  ELSE IF iter.end <= Len(val_i)
  THEN Res(scram, h, FALSE,
           ProtocolError("SCRAM Failure: unable to parse iterations in sasl step2"),
           out.buf, out.len)
  ELSE IF iter.value < 0
  THEN Res(scram, h, FALSE,
           ProtocolError("SCRAM Failure: iterations is negative in sasl step2"),
           out.buf, out.len)
  ELSE IF iter.value < MinIterations
  THEN Res([scram EXCEPT
              !.iterations = iter.value,
              !.decoded_salt = Put(Zeros(MONGOC_SCRAM_B64_HASH_MAX_SIZE),
                                   salt.out)],
           h, FALSE,
           ProtocolError("SCRAM Failure: iterations must be at least 4096"),
           out.buf, out.len)
  ELSE Step2Derive(scram, h, hashed_password,
                   Put(Zeros(MONGOC_SCRAM_B64_HASH_MAX_SIZE), salt.out),
                   salt.len, iter.value, error, out.buf, outbufmax, out.len)

\* Checks that ask for a salt as long as the hash.
Step2ChecksHashSizeSalt(scram, h, hashed_password, val_i, error, out, outbufmax, salt, iter) ==
  IF salt.len = -1
  THEN Res(scram, h, FALSE,
           ProtocolError("SCRAM Failure: unable to decode salt in sasl step2"),
           out.buf, out.len)
  ELSE IF _scram_hash_size(scram.algorithm) # salt.len
  THEN Res(scram, h, FALSE,
           ScramError("PROTOCOL_ERROR",
                      "SCRAM Failure: invalid salt length of %d in sasl step2",
                      <<salt.len>>),
           out.buf, out.len)
  ELSE IF iter.end <= Len(val_i)
  THEN Res(scram, h, FALSE,
           ProtocolError("SCRAM Failure: unable to parse iterations in sasl step2"),
           out.buf, out.len)
  ELSE IF iter.value < 0
  THEN Res(scram, h, FALSE,
           ProtocolError("SCRAM Failure: iterations is negative in sasl step2"),
           out.buf, out.len)
  ELSE IF iter.value < MinIterations
  THEN Res(scram, h, FALSE,
           ProtocolError("SCRAM Failure: iterations must be at least 4096"),
           out.buf, out.len)
  ELSE Step2Derive(scram, h, hashed_password,
                   Put(Zeros(MONGOC_SCRAM_B64_HASH_MAX_SIZE), salt.out),
                   salt.len, iter.value, error, out.buf, outbufmax, out.len)

\* The salt decoded (salt) and the iteration count read (iter).
Step2Checks(scram, h, hashed_password, val_i, error, out, outbufmax, salt, iter) ==
  IF salt.len = -1
  THEN Res(scram, h, FALSE,
           ProtocolError("SCRAM Failure: unable to decode salt in sasl step2"),
           out.buf, out.len)
  ELSE IF _scram_hash_size(scram.algorithm) - 4 # salt.len
  THEN Res(scram, h, FALSE,
           ScramError("PROTOCOL_ERROR",
                      "SCRAM Failure: invalid salt length of %d in sasl step2",
                      <<salt.len>>),
           out.buf, out.len)
  ELSE IF iter.end <= Len(val_i)
  THEN Res(scram, h, FALSE,
           ProtocolError("SCRAM Failure: unable to parse iterations in sasl step2"),
           out.buf, out.len)
  ELSE IF iter.value < 0
  THEN Res(scram, h, FALSE,
           ProtocolError("SCRAM Failure: iterations is negative in sasl step2"),
           out.buf, out.len)
  ELSE IF iter.value < MinIterations
  THEN Res(scram, h, FALSE,
           ProtocolError("SCRAM Failure: iterations must be at least 4096"),
           out.buf, out.len)
  ELSE Step2Derive(scram, h, hashed_password,
                   Put(Zeros(MONGOC_SCRAM_B64_HASH_MAX_SIZE), salt.out),
                   salt.len, iter.value, error, out.buf, outbufmax, out.len)

\* "c=biws,r=" and the nonce are in outbuf (o2), the auth message has taken
\* them (a3) and ",p=" is behind them (o3).
Step2Buffered(scram, h, hashed_password, val_s, val_i, error, outbufmax, o2, a3, o3) ==
  IF ~o2.ok
  THEN Res(scram, h, FALSE,
           ProtocolError("SCRAM Failure: could not buffer sasl step2"),
           o2.buf, o2.len)
  ELSE IF ~a3.ok
  THEN Res(scram, h, FALSE,
           ProtocolError("SCRAM Failure: could not buffer auth message in sasl step2"),
           o2.buf, o2.len)
  ELSE IF ~o3.ok
  THEN Res([scram EXCEPT !.auth_message = a3.buf, !.auth_messagelen = a3.len],
           h, FALSE,
           ProtocolError("SCRAM Failure: could not buffer sasl step2"),
           o3.buf, o3.len)
  ELSE Step2Checks([scram EXCEPT !.auth_message = a3.buf,
                                 !.auth_messagelen = a3.len],
                   h, hashed_password, val_i, error, o3, outbufmax,
                   mcommon_b64_pton(val_s, MONGOC_SCRAM_B64_HASH_MAX_SIZE),
                   bson_ascii_strtoll_int(val_i))

\* "c=biws,r=" and the nonce are in outbuf (o2).
Step2Written(scram, h, hashed_password, val_s, val_i, error, outbufmax, o2) ==
  Step2Buffered(scram, h, hashed_password, val_s, val_i, error, outbufmax, o2,
                _mongoc_scram_buf_write(o2.buf, o2.len, scram.auth_message,
                                        scram.auth_messagemax,
                                        scram.auth_messagelen),
                _mongoc_scram_buf_write(ClientFinalProofKey, -1, o2.buf,
                                        outbufmax, o2.len))

\* "c=biws,r=" is in outbuf (o1).
Step2Nonce(scram, h, hashed_password, val_r, val_s, val_i, error, outbufmax, o1) ==
  Step2Written(scram, h, hashed_password, val_s, val_i, error, outbufmax,
               IF o1.ok
               THEN _mongoc_scram_buf_write(val_r, Len(val_r), o1.buf,
                                            outbufmax, o1.len)
               ELSE o1)

\* From "verify our nonce" on: r, s and i are present.  A nonce that is not
\* repeated sets the error and goes on.
Step2Values(scram, h, hashed_password, val_r, val_s, val_i, error, outbufmax) ==
  Step2Nonce(scram, h, hashed_password, val_r, val_s, val_i,
             IF NonceNotRepeated(scram, val_r)
             THEN ProtocolError("SCRAM Failure: client nonce not repeated in sasl step 2")
             ELSE error,
             outbufmax,
             _mongoc_scram_buf_write(ClientFinalHead, -1, <<>>, outbufmax, 0))

\* The server's message is in the auth message and parsed (parse).
Step2Parsed(scram, h, hashed_password, outbuf, outbufmax, outbuflen, error, parse) ==
  IF parse.status = "fault"
  THEN CrashRes(scram, h, error, outbuf, outbuflen)
  ELSE IF parse.status = "unknown"
  THEN Res(scram, h, FALSE,
           ScramError("PROTOCOL_ERROR",
                      "SCRAM Failure: unknown key (%c) in sasl step 2",
                      <<parse.key>>),
           outbuf, outbuflen)
  ELSE IF parse.status = "invalid"
  THEN Res(scram, h, FALSE,
           ProtocolError("SCRAM Failure: invalid parse state in sasl step 2"),
           outbuf, outbuflen)
  ELSE IF ~parse.vals[Ascii.r].set
  THEN Res(scram, h, FALSE,
           ProtocolError("SCRAM Failure: no r param in sasl step 2"),
           outbuf, outbuflen)
  ELSE IF ~parse.vals[Ascii.s].set
  THEN Res(scram, h, FALSE,
           ProtocolError("SCRAM Failure: no s param in sasl step 2"),
           outbuf, outbuflen)
  ELSE IF ~parse.vals[Ascii.i].set
  THEN Res(scram, h, FALSE,
           ProtocolError("SCRAM Failure: no i param in sasl step 2"),
           outbuf, outbuflen)
  ELSE Step2Values(scram, h, hashed_password, parse.vals[Ascii.r].val,
                   parse.vals[Ascii.s].val, parse.vals[Ascii.i].val,
                   error, outbufmax)

\* The server's message and a comma written to the auth message (a2).
Step2AuthMessage(scram, h, hashed_password, inbuf, past, outbuf, outbufmax, outbuflen, error, a2) ==
  IF ~a2.ok
  THEN Res([scram EXCEPT !.auth_message = a2.buf, !.auth_messagelen = a2.len],
           h, FALSE,
           ProtocolError("SCRAM Failure: could not buffer auth message in sasl step2"),
           outbuf, outbuflen)
  ELSE Step2Parsed([scram EXCEPT !.auth_message = a2.buf,
                                 !.auth_messagelen = a2.len],
                   h, hashed_password, outbuf, outbufmax, outbuflen, error,
                   ParseAttrs(inbuf, past, {Ascii.r, Ascii.s, Ascii.i}))

\* The server's message written to the auth message (a1).
Step2AuthComma(scram, h, hashed_password, inbuf, past, outbuf, outbufmax, outbuflen, error, a1) ==
  Step2AuthMessage(scram, h, hashed_password, inbuf, past, outbuf, outbufmax,
                   outbuflen, error,
                   IF a1.ok
                   THEN _mongoc_scram_buf_write(<<Ascii.comma>>, -1, a1.buf,
                                                scram.auth_messagemax, a1.len)
                   ELSE a1)

\* The password prepared (prep).
Step2Prepared(scram, h, inbuf, past, outbuf, outbufmax, outbuflen, error, prep) ==
  IF prep.crash THEN CrashRes(scram, h, error, outbuf, outbuflen)
  ELSE IF prep.null
  THEN Res(scram, h, FALSE, prep.error, outbuf, outbuflen)
  ELSE Step2AuthComma(scram, h, prep.text, inbuf, past, outbuf, outbufmax,
                      outbuflen, error,
                      _mongoc_scram_buf_write(inbuf, Len(inbuf),
                                              scram.auth_message,
                                              scram.auth_messagemax,
                                              scram.auth_messagelen))

\* A cleanup that releases the local hashed_password as it is.
Step2CleanupUnzeroed(res, hashed_password) ==
  IF res.crash THEN res
  ELSE [res EXCEPT !.heap = bson_free(res.heap, hashed_password)]

\* CLEANUP: the local hashed_password is zeroed and released on every path
\* that returns.
Step2Cleanup(res, hashed_password) ==
  IF res.crash THEN res
  ELSE [res EXCEPT !.heap = bson_zero_free(res.heap, hashed_password)]

\* The local hashed_password is prep.text, in the cell prep.addr.
Step2Local(scram, inbuf, past, outbuf, outbufmax, outbuflen, error, prep) ==
  Step2Cleanup(Step2Prepared(scram, prep.heap, inbuf, past, outbuf, outbufmax,
                             outbuflen, error, prep),
               prep.addr)

_mongoc_scram_step2(scram, h, inbuf, past, outbuf, outbufmax, outbuflen, error, nullText) ==
  Step2Local(scram, inbuf, past, outbuf, outbufmax, outbuflen, error,
             PreparePassword(scram, h, error, nullText))

(***************************************************************************)
(* Step 3                                                                  *)
(***************************************************************************)

\* The signature the client computed, encoded (enc), against the server's.
SignatureMatches(scram, verification, len, enc) ==
  [scram |-> scram,
   ok |-> /\ enc.len # -1
          /\ len = enc.len
          /\ Take(verification, len) = Take(enc.out, len)]

\* scram.server_key is in place.
VerifyFromKey(scram, verification, len) ==
  SignatureMatches(
    scram, verification, len,
    mcommon_b64_ntop(
      mongoc_crypto_hmac(scram.algorithm,
                         Take(scram.server_key,
                              _scram_hash_size(scram.algorithm)),
                         Take(scram.auth_message, scram.auth_messagelen)),
      MONGOC_SCRAM_B64_HASH_MAX_SIZE))

_mongoc_scram_verify_server_signature(scram, verification, len) ==
  VerifyFromKey(
    IF scram.server_key[1] = 0
    THEN [scram EXCEPT !.server_key =
            Put(@, mongoc_crypto_hmac(
                     scram.algorithm,
                     Take(scram.salted_password,
                          _scram_hash_size(scram.algorithm)),
                     MONGOC_SCRAM_SERVER_KEY))]
    ELSE scram,
    verification, len)

\* The cache updated (upd) after the signature was found right.
Step3Return(error, upd) == Res(upd.scram, upd.heap, TRUE, error, <<>>, 0)

\* The server's signature looked at (verify).
Step3Verified(h, error, verify) ==
  IF ~verify.ok
  THEN Res(verify.scram, h, FALSE,
           ProtocolError("SCRAM Failure: could not verify server signature in sasl step 3"),
           <<>>, 0)
  ELSE Step3Return(error, _mongoc_scram_update_cache(h, verify.scram))

\* The message parsed without a complaint: e, then v.
Step3Values(scram, h, error, val_e, val_v) ==
  IF val_e.set
  THEN Res(scram, h, FALSE,
           ScramError("PROTOCOL_ERROR",
                      "SCRAM Failure: authentication failure in sasl step 3 : %s",
                      val_e.val),
           <<>>, 0)
  ELSE IF ~val_v.set
  THEN Res(scram, h, FALSE,
           ProtocolError("SCRAM Failure: no v param in sasl step 3"),
           <<>>, 0)
  ELSE Step3Verified(h, error,
                     _mongoc_scram_verify_server_signature(scram, val_v.val,
                                                           Len(val_v.val)))

\* The server's message parsed (parse).
Step3Parsed(scram, h, outbuf, outbuflen, error, parse) ==
  IF parse.status = "fault"
  THEN CrashRes(scram, h, error, outbuf, outbuflen)
  ELSE IF parse.status = "unknown"
  THEN Res(scram, h, FALSE,
           ScramError("PROTOCOL_ERROR",
                      "SCRAM Failure: unknown key (%c) in sasl step 3",
                      <<parse.key>>),
           outbuf, outbuflen)
  ELSE IF parse.status = "invalid"
  THEN Res(scram, h, FALSE,
           ProtocolError("SCRAM Failure: invalid parse state in sasl step 3"),
           outbuf, outbuflen)
  ELSE Step3Values(scram, h, error, parse.vals[Ascii.e], parse.vals[Ascii.v])

\* A look at v before the look at e: a right v returns, a wrong one or none
\* leaves the matter to e.
ValuesVerifyingFirst(scram, h, error, val_e, val_v, verify) ==
  IF val_v.set /\ verify.ok
  THEN Step3Return(error, _mongoc_scram_update_cache(h, verify.scram))
  ELSE IF val_e.set
  THEN Res(scram, h, FALSE,
           ScramError("PROTOCOL_ERROR",
                      "SCRAM Failure: authentication failure in sasl step 3 : %s",
                      val_e.val),
           <<>>, 0)
  ELSE Res(scram, h, FALSE,
           ProtocolError("SCRAM Failure: no v param in sasl step 3"),
           <<>>, 0)

ParsedVerifyingFirst(scram, h, outbuf, outbuflen, error, parse) ==
  IF parse.status = "fault"
  THEN CrashRes(scram, h, error, outbuf, outbuflen)
  ELSE IF parse.status # "ok"
  THEN Res(scram, h, FALSE,
           ProtocolError("SCRAM Failure: invalid parse state in sasl step 3"),
           outbuf, outbuflen)
  ELSE ValuesVerifyingFirst(
         scram, h, error, parse.vals[Ascii.e], parse.vals[Ascii.v],
         _mongoc_scram_verify_server_signature(
           scram, parse.vals[Ascii.v].val, Len(parse.vals[Ascii.v].val)))

\* A step 3 that looks at v before it looks at e.
Step3VerifyingFirst(scram, h, inbuf, past, outbuf, outbufmax, outbuflen, error) ==
  ParsedVerifyingFirst(scram, h, outbuf, outbuflen, error,
                       ParseAttrs(inbuf, past, {Ascii.e, Ascii.v}))

_mongoc_scram_step3(scram, h, inbuf, past, outbuf, outbufmax, outbuflen, error) ==
  Step3Parsed(scram, h, outbuf, outbuflen, error,
              ParseAttrs(inbuf, past, {Ascii.e, Ascii.v}))

(***************************************************************************)
(* _mongoc_scram_step                                                      *)
(***************************************************************************)

\* A step that stops counting at 3.
StepCountingToThree(scram, h, error, in) ==
  LET s1 == [scram EXCEPT !.step = @ + 1]
  IN IF s1.step = 1
     THEN _mongoc_scram_start(s1, h, in.outbuf, in.outbufmax, in.outbuflen,
                              error, in.rand)
     ELSE IF s1.step = 2
     THEN _mongoc_scram_step2(s1, h, in.inbuf, in.past, in.outbuf,
                              in.outbufmax, in.outbuflen, error, in.nullText)
     ELSE IF s1.step = 3
     THEN _mongoc_scram_step3(s1, h, in.inbuf, in.past, in.outbuf,
                              in.outbufmax, in.outbuflen, error)
     ELSE Res(scram, h, FALSE,
              ScramError("NOT_DONE", "SCRAM Failure: maximum steps detected",
                         <<>>),
              in.outbuf, in.outbuflen)

\* A step that takes every call past the third for a third call.
StepRepeatingTheThird(scram, h, error, in) ==
  LET s1 == [scram EXCEPT !.step = @ + 1]
  IN IF s1.step = 1
     THEN _mongoc_scram_start(s1, h, in.outbuf, in.outbufmax, in.outbuflen,
                              error, in.rand)
     ELSE IF s1.step = 2
     THEN _mongoc_scram_step2(s1, h, in.inbuf, in.past, in.outbuf,
                              in.outbufmax, in.outbuflen, error, in.nullText)
     ELSE _mongoc_scram_step3(s1, h, in.inbuf, in.past, in.outbuf,
                              in.outbufmax, in.outbuflen, error)

\* in: [inbuf, past, outbuf, outbufmax, outbuflen, rand, nullText], the
\* arguments of the call and what its environment does during it.
_mongoc_scram_step(scram, h, error, in) ==
  LET s1 == [scram EXCEPT !.step = @ + 1]
  IN IF s1.step = 1
     THEN _mongoc_scram_start(s1, h, in.outbuf, in.outbufmax, in.outbuflen,
                              error, in.rand)
     ELSE IF s1.step = 2
     THEN _mongoc_scram_step2(s1, h, in.inbuf, in.past, in.outbuf,
                              in.outbufmax,
                              in.outbuflen, error, in.nullText)
     ELSE IF s1.step = 3
     THEN _mongoc_scram_step3(s1, h, in.inbuf, in.past, in.outbuf,
                              in.outbufmax,
                              in.outbuflen, error)
     ELSE Res(s1, h, FALSE,
              ScramError("NOT_DONE", "SCRAM Failure: maximum steps detected",
                         <<>>),
              in.outbuf, in.outbuflen)

(***************************************************************************)
(* The messages a server may send and the calls a caller may make          *)
(***************************************************************************)

BufMax == 200      \* a buffer with room for every message of a conversation
SmallMax == 8      \* a buffer too small for the first message
MaxCalls == 4      \* calls of _mongoc_scram_step on one session
MidMax == 64       \* a buffer with room for the first message only
MostMax == 128     \* one with room for the server's first message as well

Digits(ds) == Tup([k \in 1..Len(ds) |-> Ascii.zero + ds[k]], Len(ds))
Attr(key, val) == <<key, Ascii.eq>> \o val
Join(attrs) ==
  IF Len(attrs) = 0 THEN <<>>
  ELSE IF Len(attrs) = 1 THEN attrs[1]
  ELSE IF Len(attrs) = 2 THEN attrs[1] \o <<Ascii.comma>> \o attrs[2]
  ELSE attrs[1] \o <<Ascii.comma>> \o attrs[2] \o <<Ascii.comma>> \o attrs[3]

Abc == <<Ascii.a, Ascii.b, Ascii.c>>

StepInput(inbuf, past, outbuf, outbufmax, rand, nullText) ==
  [inbuf |-> inbuf, past |-> past, outbuf |-> outbuf, outbufmax |-> outbufmax,
   outbuflen |-> Len(outbuf), rand |-> rand, nullText |-> nullText]

RandOk == [ok |-> TRUE, bytes |-> Nonce1]
RandFails == [ok |-> FALSE, bytes |-> <<>>]

\* The first call: the caller's buffer and the random source.
FirstInputs ==
  {StepInput(<<>>, <<>>, <<>>, BufMax, RandOk, TRUE),
   StepInput(<<>>, <<>>, <<>>, BufMax, RandFails, TRUE),
   StepInput(<<>>, <<>>, <<>>, SmallMax, RandOk, TRUE),
   StepInput(<<>>, <<>>, <<Ascii.x, Ascii.x>>, BufMax, RandOk, TRUE)}
FirstInputsPlain == {StepInput(<<>>, <<>>, <<>>, BufMax, RandOk, TRUE)}

\* The nonce of an honest server: the client's, with its own part appended.
ServerNonce(scram) ==
  Take(scram.encoded_nonce, scram.encoded_nonce_len) \o <<Ascii.s>>
GoodSalt(scram) ==
  mcommon_b64_ntop(SaltOf(scram.algorithm), MONGOC_SCRAM_B64_HASH_MAX_SIZE).out
GoodIterations == Digits(<<4, 0, 9, 6>>)
LowIterations == Digits(<<4, 0, 9, 5>>)
\* -4294963200 = 4096 - 2^32
WrappedIterations ==
  <<Ascii.minus>> \o Digits(<<4, 2, 9, 4, 9, 6, 3, 2, 0, 0>>)
\* 4294971392 = 2^32 + 4096
OverflowingIterations == Digits(<<4, 2, 9, 4, 9, 7, 1, 3, 9, 2>>)

ServerFirst(r, s, i) ==
  Join(<<Attr(Ascii.r, r), Attr(Ascii.s, s), Attr(Ascii.i, i)>>)

NonceValues(scram) ==
  {ServerNonce(scram),
   <<Ascii.x>> \o ServerNonce(scram),              \* does not begin with it
   Take(ServerNonce(scram), Len(ServerNonce(scram)) - 2)}   \* too short
\* A salt of the length the other algorithm asks for.
OtherSalt(scram) ==
  mcommon_b64_ntop(SaltOf(IF scram.algorithm = "SHA_1" THEN "SHA_256"
                          ELSE "SHA_1"),
                   MONGOC_SCRAM_B64_HASH_MAX_SIZE).out
SaltValues(scram) ==
  {GoodSalt(scram),
   mcommon_b64_ntop(Salt16 \o <<7>>, MONGOC_SCRAM_B64_HASH_MAX_SIZE).out,
   <<Ascii.minus, Ascii.minus>>,
   OtherSalt(scram),
   Take(GoodSalt(scram), Len(GoodSalt(scram)) - 1),
   <<>>}
IterationValues ==
  {GoodIterations, LowIterations, <<Ascii.minus, Ascii.zero + 1>>,
   GoodIterations \o <<Ascii.x>>, WrappedIterations, OverflowingIterations,
   <<>>, <<Ascii.x>>}

\* What may lie behind a message in memory.
PastValues == {<<>>, <<0>>, <<Ascii.eq, Ascii.a>>, <<Ascii.eq, Ascii.comma>>}

NullTexts(scram) ==
  IF scram.user = NULL \/ scram.pass = NULL THEN BOOLEAN ELSE {TRUE}

SecondMessages(scram) ==
  {ServerFirst(r, GoodSalt(scram), GoodIterations) : r \in NonceValues(scram)}
  \cup {ServerFirst(ServerNonce(scram), sl, GoodIterations) :
          sl \in SaltValues(scram)}
  \cup {ServerFirst(ServerNonce(scram), GoodSalt(scram), i) :
          i \in IterationValues}
  \cup {<<>>,
        Attr(Ascii.x, Digits(<<1>>)),
        <<Ascii.r, Ascii.r>>,
        Join(<<Attr(Ascii.r, ServerNonce(scram)),
               Attr(Ascii.s, GoodSalt(scram))>>),
        Join(<<Attr(Ascii.i, GoodIterations), Attr(Ascii.s, GoodSalt(scram)),
               Attr(Ascii.r, ServerNonce(scram))>>)}

SecondInputs(scram) ==
  {StepInput(m, <<>>, <<>>, BufMax, RandOk, t) :
     m \in SecondMessages(scram), t \in NullTexts(scram)}
  \cup {StepInput(<<Ascii.r>>, q, <<>>, BufMax, RandOk, TRUE) :
          q \in PastValues}
SecondInputsPlain(scram) ==
  {StepInput(ServerFirst(ServerNonce(scram), GoodSalt(scram), i), <<>>, <<>>,
             BufMax, RandOk, TRUE) : i \in {GoodIterations, LowIterations}}

\* ServerSignature in base64 as RFC 5802 derives it from a server key.
SignatureFrom(scram, server_key) ==
  mcommon_b64_ntop(
    mongoc_crypto_hmac(scram.algorithm,
                       Take(server_key, _scram_hash_size(scram.algorithm)),
                       Take(scram.auth_message, scram.auth_messagelen)),
    MONGOC_SCRAM_B64_HASH_MAX_SIZE).out

\* ServerKey := HMAC(SaltedPassword, "Server Key")
ServerKeyOf(scram) ==
  mongoc_crypto_hmac(scram.algorithm,
                     Take(scram.salted_password,
                          _scram_hash_size(scram.algorithm)),
                     MONGOC_SCRAM_SERVER_KEY)

ExpectedSignature(scram) == SignatureFrom(scram, ServerKeyOf(scram))

Signatures(scram) ==
  {ExpectedSignature(scram), SignatureFrom(scram, scram.server_key)}

ThirdMessages(scram) ==
  UNION {{Attr(Ascii.v, v),
          Attr(Ascii.v, Take(v, Len(v) - 1) \o <<Ascii.minus>>),
          Attr(Ascii.v, Take(v, Len(v) - 1)),
          Attr(Ascii.v, v \o <<Ascii.eq>>),
          Join(<<Attr(Ascii.e, Abc), Attr(Ascii.v, v)>>),
          Join(<<Attr(Ascii.v, v), Attr(Ascii.e, Abc)>>)} :
         v \in Signatures(scram)}
  \cup {<<>>,
        Attr(Ascii.e, Abc),
        Join(<<Attr(Ascii.e, Abc), Attr(Ascii.e, <<Ascii.x>>)>>),
        Attr(Ascii.x, Digits(<<1>>)),
        Join(<<Attr(Ascii.e, Abc), Attr(Ascii.q, Digits(<<1>>))>>),
        <<Ascii.e, Ascii.e>>}

ThirdInputs(scram) ==
  {StepInput(m, <<>>, <<>>, BufMax, RandOk, TRUE) : m \in ThirdMessages(scram)}
  \cup {StepInput(<<Ascii.v>>, q, <<>>, BufMax, RandOk, TRUE) :
          q \in PastValues}
ThirdInputsPlain(scram) ==
  {StepInput(m, <<>>, <<>>, BufMax, RandOk, TRUE) :
     m \in {Attr(Ascii.v, v) : v \in Signatures(scram)}
           \cup {Attr(Ascii.v, <<Ascii.x>>), Attr(Ascii.e, Abc)}}

\* A caller that goes on past the third call, with nothing or with the
\* server-final message once more.
LaterInputs(scram) ==
  {StepInput(m, <<>>, <<>>, BufMax, RandOk, TRUE) :
     m \in {<<>>, Attr(Ascii.v, ExpectedSignature(scram))}}

\* The inputs of the next call of a session, rich or plain.
StepInputs(scram, rich) ==
  IF scram.step = 0 THEN (IF rich THEN FirstInputs ELSE FirstInputsPlain)
  ELSE IF scram.step = 1
  THEN (IF rich THEN SecondInputs(scram) ELSE SecondInputsPlain(scram))
  ELSE IF scram.step = 2
  THEN (IF rich THEN ThirdInputs(scram) ELSE ThirdInputsPlain(scram))
  ELSE LaterInputs(scram)

\* The calls of a caller that varies its buffers while the server keeps to
\* the protocol.
CallerFirstInputs ==
  FirstInputs \cup {StepInput(<<>>, <<>>, <<>>, max, RandOk, TRUE) :
                      max \in {MidMax, MostMax}}
CallerSecondInputs(scram) ==
  {StepInput(ServerFirst(ServerNonce(scram), GoodSalt(scram), GoodIterations),
             <<>>, <<>>, max, RandOk, t) :
     max \in {BufMax, MidMax}, t \in NullTexts(scram)}
CallerInputs(scram) ==
  IF scram.step = 0 THEN CallerFirstInputs
  ELSE IF scram.step = 1 THEN CallerSecondInputs(scram)
  ELSE IF scram.step = 2 THEN ThirdInputsPlain(scram)
  ELSE LaterInputs(scram)

(***************************************************************************)
(* The state machine                                                       *)
(***************************************************************************)

(***************************************************************************)
(* UTF-8                                                                   *)
(***************************************************************************)

\* The byte c + k of a NUL-terminated string: the terminator stands behind
\* the last byte, and nothing is known of what lies behind the terminator.
ByteAt(s, k) == IF k = Len(s) + 1 THEN 0 ELSE s[k]

\* A byte as the value of a char: negative above 0x7F where char is signed.
CharValue(b, charSigned) == IF charSigned /\ b >= 128 THEN b - 256 ELSE b

_mongoc_char_between_chars(c, lower, upper, charSigned) ==
  /\ CharValue(c, charSigned) >= CharValue(lower, charSigned)
  /\ CharValue(c, charSigned) <= CharValue(upper, charSigned)

\* An is_valid that lets 0xED lead every continuation byte.
Utf8IsValidWithSurrogates(s, k, length, charSigned) ==
  LET B(c, lower, upper) == _mongoc_char_between_chars(c, lower, upper, charSigned)
  IN CASE length = 1 -> B(ByteAt(s, k), 0, 127)
       [] length = 2 -> B(ByteAt(s, k), 194, 223) /\ B(ByteAt(s, k + 1), 128, 191)
       [] length = 3 ->
            \/ /\ B(ByteAt(s, k), 224, 224) /\ B(ByteAt(s, k + 1), 160, 191)
               /\ B(ByteAt(s, k + 2), 128, 191)
            \/ /\ B(ByteAt(s, k), 225, 239) /\ B(ByteAt(s, k + 1), 128, 191)
               /\ B(ByteAt(s, k + 2), 128, 191)
       [] length = 4 ->
            \/ /\ B(ByteAt(s, k), 240, 240) /\ B(ByteAt(s, k + 1), 144, 191)
               /\ B(ByteAt(s, k + 2), 128, 191) /\ B(ByteAt(s, k + 3), 128, 191)
            \/ /\ B(ByteAt(s, k), 241, 243) /\ B(ByteAt(s, k + 1), 128, 191)
               /\ B(ByteAt(s, k + 2), 128, 191) /\ B(ByteAt(s, k + 3), 128, 191)
            \/ /\ B(ByteAt(s, k), 244, 244) /\ B(ByteAt(s, k + 1), 128, 143)
               /\ B(ByteAt(s, k + 2), 128, 191) /\ B(ByteAt(s, k + 3), 128, 191)
       [] OTHER -> TRUE

\* The character at c = s + k - 1, length bytes long by its first byte.
_mongoc_utf8_is_valid(s, k, length, charSigned) ==
  LET B(c, lower, upper) == _mongoc_char_between_chars(c, lower, upper, charSigned)
  IN CASE length = 1 -> B(ByteAt(s, k), 0, 127)
       [] length = 2 -> B(ByteAt(s, k), 194, 223) /\ B(ByteAt(s, k + 1), 128, 191)
       [] length = 3 ->
            \/ /\ B(ByteAt(s, k), 224, 224) /\ B(ByteAt(s, k + 1), 160, 191)
               /\ B(ByteAt(s, k + 2), 128, 191)
            \/ /\ B(ByteAt(s, k), 225, 236) /\ B(ByteAt(s, k + 1), 128, 191)
               /\ B(ByteAt(s, k + 2), 128, 191)
            \/ /\ B(ByteAt(s, k), 237, 237) /\ B(ByteAt(s, k + 1), 128, 159)
               /\ B(ByteAt(s, k + 2), 128, 191)
            \/ /\ B(ByteAt(s, k), 238, 239) /\ B(ByteAt(s, k + 1), 128, 191)
               /\ B(ByteAt(s, k + 2), 128, 191)
       [] length = 4 ->
            \/ /\ B(ByteAt(s, k), 240, 240) /\ B(ByteAt(s, k + 1), 144, 191)
               /\ B(ByteAt(s, k + 2), 128, 191) /\ B(ByteAt(s, k + 3), 128, 191)
            \/ /\ B(ByteAt(s, k), 241, 243) /\ B(ByteAt(s, k + 1), 128, 191)
               /\ B(ByteAt(s, k + 2), 128, 191) /\ B(ByteAt(s, k + 3), 128, 191)
            \/ /\ B(ByteAt(s, k), 244, 244) /\ B(ByteAt(s, k + 1), 128, 143)
               /\ B(ByteAt(s, k + 2), 128, 191) /\ B(ByteAt(s, k + 3), 128, 191)
       [] OTHER -> TRUE

\* (*c & 0x80) == 0, (*c & 0xe0) == 0xc0, (*c & 0xf0) == 0xe0,
\* (*c & 0xf8) == 0xf0, else 1.
_mongoc_utf8_char_length(c) ==
  IF c \div 128 = 0 THEN 1
  ELSE IF c \div 32 = 6 THEN 2
  ELSE IF c \div 16 = 14 THEN 3
  ELSE IF c \div 8 = 30 THEN 4
  ELSE 1

\* The loop of _mongoc_utf8_string_length from c = s + k - 1 on, str_length
\* characters counted.
RECURSIVE Utf8Loop(_, _, _, _)
Utf8Loop(s, k, str_length, charSigned) ==
  IF ByteAt(s, k) = 0 THEN str_length
  ELSE IF ~_mongoc_utf8_is_valid(s, k, _mongoc_utf8_char_length(ByteAt(s, k)),
                                 charSigned)
  THEN -1
  ELSE Utf8Loop(s, k + _mongoc_utf8_char_length(ByteAt(s, k)), str_length + 1,
                charSigned)

_mongoc_utf8_string_length(s, charSigned) == Utf8Loop(s, 1, 0, charSigned)

(***************************************************************************)
(* Code points and SASLprep in a build with MONGOC_ENABLE_ICU              *)
(***************************************************************************)

RECURSIVE CodeInTableFrom(_, _, _, _)
\* The loop of _mongoc_is_code_in_table from index i on (table[i] is the
\* element i + 1 of the sequence).
CodeInTableFrom(code, table, size, i) ==
  IF i >= size THEN FALSE
  ELSE IF code >= table[i + 1] \/ code <= table[i + 2] THEN TRUE
  ELSE CodeInTableFrom(code, table, size, i + 2)

_mongoc_is_code_in_table(code, table, size) ==
  CodeInTableFrom(code, table, size, 0)

\* The character of length bytes at c = s + k - 1 as a code point.  c[0] of
\* a one-byte character is converted as a char: a byte above 0x7F of a
\* signed char gives 2^32 - (256 - byte), written here as byte - 256.
_mongoc_utf8_to_unicode(s, k, length, charSigned) ==
  IF length = 1 THEN CharValue(ByteAt(s, k), charSigned)
  ELSE IF length = 2
  THEN (ByteAt(s, k) % 32) * 64 + (ByteAt(s, k + 1) % 64)
  ELSE IF length = 3
  THEN (ByteAt(s, k) % 16) * 4096 + (ByteAt(s, k + 1) % 64) * 64
       + (ByteAt(s, k + 2) % 64)
  ELSE IF length = 4
  THEN (ByteAt(s, k) % 8) * 262144 + (ByteAt(s, k + 1) % 64) * 4096
       + (ByteAt(s, k + 2) % 64) * 64 + (ByteAt(s, k + 3) % 64)
  ELSE 0

MaxCodePoint == 1114111      \* 0x10FFFF

\* _mongoc_unicode_to_utf8 (c, out): c is the pointer it is handed, val the
\* unsigned int behind it.  The branch is chosen by the pointer, the bytes
\* are made of the value; out is what was written, ret what is returned.
_mongoc_unicode_to_utf8(c, val) ==
  IF c <= 127
  THEN [ret |-> 1, out |-> <<val % 256>>]
  ELSE IF c <= 2047
  THEN [ret |-> 2,
        out |-> <<192 + ((val \div 64) % 32), 128 + (val % 64)>>]
  ELSE IF c <= 65535
  THEN [ret |-> 3,
        out |-> <<224 + ((val \div 4096) % 16), 128 + ((val \div 64) % 64),
                  128 + (val % 64)>>]
  ELSE IF c <= MaxCodePoint
  THEN [ret |-> 4,
        out |-> <<240 + ((val \div 262144) % 8),
                  128 + ((val \div 4096) % 64), 128 + ((val \div 64) % 64),
                  128 + (val % 64)>>]
  ELSE [ret |-> -1, out |-> <<>>]

\* _mongoc_unicode_codepoint_length (c): decided by the pointer c.
_mongoc_unicode_codepoint_length(c) ==
  IF c <= 127 THEN 1
  ELSE IF c <= 2047 THEN 2
  ELSE IF c <= 65535 THEN 3
  ELSE IF c <= MaxCodePoint THEN 4
  ELSE -1

\* The tables of RFC 3454 that mongoc-scram-private.h holds, as
\* <<first, last, first, last, ...>>, cut down to the ranges around the code
\* points of this model.
non_ascii_space_character_ranges ==
  <<160, 160, 5760, 5760, 8192, 8203, 8239, 8239, 8287, 8287, 12288, 12288>>
commonly_mapped_to_nothing_ranges ==
  <<173, 173, 847, 847, 6150, 6150, 6155, 6157, 8203, 8205, 8288, 8288,
    65024, 65039, 65279, 65279>>
prohibited_output_ranges ==
  <<0, 31, 127, 127, 128, 159, 160, 160, 1757, 1757, 1807, 1807, 5760, 5760,
    6158, 6158, 8192, 8203, 8204, 8205, 8232, 8233, 55296, 57343,
    57344, 63743, 65529, 65533>>
unassigned_codepoint_ranges ==
  <<545, 545, 564, 591, 65536, 66303, 120832, 131069>>
LCat_bidi_ranges ==
  <<65, 90, 97, 122, 170, 170, 181, 181, 186, 186, 192, 214, 216, 246,
    119808, 119892>>
RandALCat_bidi_ranges ==
  <<1470, 1470, 1472, 1472, 1475, 1475, 1488, 1514, 1520, 1524, 1563, 1563,
    1567, 1567, 1569, 1594>>

RECURSIVE DecodeFrom(_, _, _, _)
\* "convert to unicode": n characters from c = s + k - 1 on.
DecodeFrom(s, k, n, charSigned) ==
  IF n = 0 THEN <<>>
  ELSE <<_mongoc_utf8_to_unicode(s, k, _mongoc_utf8_char_length(ByteAt(s, k)),
                                 charSigned)>>
       \o DecodeFrom(s, k + _mongoc_utf8_char_length(ByteAt(s, k)), n - 1,
                     charSigned)

MappedSpace == 512         \* 0x200, what the map step writes for a space

RECURSIVE MapCodes(_)
\* "a. Map": the code points written through curr.
MapCodes(codes) ==
  IF codes = <<>> THEN <<>>
  ELSE (IF _mongoc_is_code_in_table(Head(codes),
                                    non_ascii_space_character_ranges,
                                    Len(non_ascii_space_character_ranges))
        THEN <<MappedSpace>>
        ELSE IF _mongoc_is_code_in_table(
                  Head(codes), commonly_mapped_to_nothing_ranges,
                  Len(commonly_mapped_to_nothing_ranges))
        THEN <<>>
        ELSE <<Head(codes)>>) \o MapCodes(Tail(codes))

RECURSIVE BidiLoop(_, _, _)
\* "d. Check bidi": the loop over the mapped code points from index i on,
\* flags = [LCat, RandALCar].
BidiLoop(codes, i, flags) ==
  IF i > Len(codes) THEN flags
  ELSE LET isL == _mongoc_is_code_in_table(codes[i], LCat_bidi_ranges,
                                           Len(LCat_bidi_ranges))
           isR == _mongoc_is_code_in_table(codes[i], RandALCat_bidi_ranges,
                                           Len(RandALCat_bidi_ranges))
       IN IF isL /\ flags.RandALCar
          THEN [flags EXCEPT !.LCat = TRUE]         \* break
          ELSE BidiLoop(codes, i + 1,
                        [LCat |-> flags.LCat \/ isL,
                         RandALCar |-> flags.RandALCar \/ isR])

RECURSIVE OutLength(_)
\* "preflight for length": every code point is handed over as the pointer.
OutLength(codes) ==
  IF codes = <<>> THEN 0
  ELSE _mongoc_unicode_codepoint_length(Head(codes)) + OutLength(Tail(codes))

\* From "2. perform SASLPREP" to the end: the prohibit loop and the bidi
\* test have empty bodies, out_utf8 is allocated and left, NULL is returned
\* and err is not written.
SaslPrepFiltered(codes, err) ==
  [null |-> TRUE, text |-> <<>>, error |-> err, codes |-> MapCodes(codes),
   bidi |-> BidiLoop(MapCodes(codes), 1, [LCat |-> FALSE, RandALCar |-> FALSE]),
   out_utf8_len |-> OutLength(MapCodes(codes))]

\* "could not calculate UTF-8 length of %s" with the name for %s.
LengthError(name) ==
  ScramError("PROTOCOL_ERROR", "could not calculate UTF-8 length of %s", name)

_mongoc_sasl_prep_impl(name, in_utf8, err, charSigned) ==
  IF _mongoc_utf8_string_length(in_utf8, charSigned) = -1
  THEN [null |-> TRUE, text |-> <<>>, error |-> LengthError(name),
        codes |-> <<>>, bidi |-> [LCat |-> FALSE, RandALCar |-> FALSE],
        out_utf8_len |-> 0]
  ELSE SaslPrepFiltered(
         DecodeFrom(in_utf8, 1, _mongoc_utf8_string_length(in_utf8, charSigned),
                    charSigned),
         err)

VARIABLES
  scram,      \* the mongoc_scram_t of the session
  heap,       \* the cells its pointers and the caller's entry point into
  held,       \* the cache entry the caller holds, NULL if none
  phase,      \* "none", "live" or "destroyed"
  sessions,   \* sessions initialised so far
  rval,       \* what the last _mongoc_scram_step call returned
  error,      \* the caller's bson_error_t after it
  outbuf,     \* the caller's output buffer, up to outbuflen
  outbuflen,
  crashed,    \* a call did not return
  lastop,     \* the operation that led here
  lastin,     \* the input of the last _mongoc_scram_step call
  calls,      \* _mongoc_scram_step calls made on the session
  failed,     \* a call before the last one on the session returned false
  hi_ran,     \* the last call ran the Hi loop
  utf8_string,  \* the string _mongoc_utf8_string_length is called with
  utf8_length,  \* what it returned
  presecrets_match,  \* what _mongoc_scram_cache_has_presecrets returned
  unicode_arg,  \* the arguments of a call of a code point function
  unicode_ret   \* what that call returned

vars == <<scram, heap, held, phase, sessions, rval, error, outbuf, outbuflen,
          crashed, lastop, lastin, calls, failed, hi_ran, utf8_string,
          utf8_length, presecrets_match, unicode_arg, unicode_ret>>

\* The variables of the functions that are called by themselves, which no
\* call on a session touches.
pure_vars == <<utf8_string, utf8_length, presecrets_match, unicode_arg,
               unicode_ret>>

MaxSessions == 2

\* No code point function has been called.
NoArg == [code |-> 0, table |-> <<>>]
NoRet == [null |-> FALSE]

EmptyHeap == [a \in Addrs |-> FreeCell]

Init ==
  /\ scram = ZeroScram
  /\ heap = EmptyHeap
  /\ held = NULL
  /\ phase = "none"
  /\ sessions = 0
  /\ rval = FALSE
  /\ error = NoError
  /\ outbuf = <<>>
  /\ outbuflen = 0
  /\ crashed = FALSE
  /\ lastop = "none"
  /\ lastin = StepInput(<<>>, <<>>, <<>>, BufMax, RandOk, TRUE)
  /\ calls = 0
  /\ failed = FALSE
  /\ hi_ran = FALSE
  /\ utf8_string = <<>>
  /\ utf8_length = 0
  /\ presecrets_match = FALSE
  /\ unicode_arg = NoArg
  /\ unicode_ret = NoRet

Running == phase = "live" /\ ~crashed

\* _mongoc_scram_init on a fresh struct; again: also on one destroyed before.
ScramInit(algo, again) ==
  /\ ~crashed
  /\ \/ phase = "none"
     \/ again /\ phase = "destroyed" /\ sessions < MaxSessions
  /\ scram' = _mongoc_scram_init(algo)
  /\ phase' = "live"
  /\ sessions' = sessions + 1
  /\ calls' = 0
  /\ failed' = FALSE
  /\ lastop' = "init"
  /\ UNCHANGED pure_vars
  /\ UNCHANGED <<heap, held, rval, error, outbuf, outbuflen, crashed, lastin,
                 hi_ran>>

\* The caller names the user before the conversation; again: also anew.
SetUser(user, again) ==
  /\ Running
  /\ scram.step = 0
  /\ again \/ scram.user = NULL
  /\ LET r == _mongoc_scram_set_user(heap, scram, user, FALSE)
     IN scram' = r.scram /\ heap' = r.heap
  /\ lastop' = "set_user"
  /\ UNCHANGED pure_vars
  /\ UNCHANGED <<held, phase, sessions, rval, error, outbuf, outbuflen,
                 crashed, lastin, calls, failed, hi_ran>>

SetPass(pass, again) ==
  /\ Running
  /\ scram.step = 0
  /\ again \/ scram.pass = NULL
  /\ LET r == _mongoc_scram_set_pass(heap, scram, pass, FALSE)
     IN scram' = r.scram /\ heap' = r.heap
  /\ lastop' = "set_pass"
  /\ UNCHANGED pure_vars
  /\ UNCHANGED <<held, phase, sessions, rval, error, outbuf, outbuflen,
                 crashed, lastin, calls, failed, hi_ran>>

\* _mongoc_scram_set_user (scram, NULL)
ClearUser ==
  /\ Running
  /\ scram.step = 0
  /\ LET r == _mongoc_scram_set_user(heap, scram, <<>>, TRUE)
     IN scram' = r.scram /\ heap' = r.heap
  /\ lastop' = "set_user"
  /\ UNCHANGED pure_vars
  /\ UNCHANGED <<held, phase, sessions, rval, error, outbuf, outbuflen,
                 crashed, lastin, calls, failed, hi_ran>>

\* _mongoc_scram_set_cache with the entry the caller holds.
SetCache ==
  /\ Running
  /\ scram.step = 0
  /\ held # NULL
  /\ LET r == _mongoc_scram_set_cache(heap, scram, held)
     IN scram' = r.scram /\ heap' = r.heap
  /\ lastop' = "set_cache"
  /\ UNCHANGED pure_vars
  /\ UNCHANGED <<held, phase, sessions, rval, error, outbuf, outbuflen,
                 crashed, lastin, calls, failed, hi_ran>>

\* _mongoc_scram_get_cache: the caller keeps what it returns.
GetCache ==
  /\ Running
  /\ held = NULL
  /\ LET r == _mongoc_scram_get_cache(heap, scram)
     IN held' = r.ret /\ heap' = r.heap
  /\ lastop' = "get_cache"
  /\ UNCHANGED pure_vars
  /\ UNCHANGED <<scram, phase, sessions, rval, error, outbuf, outbuflen,
                 crashed, lastin, calls, failed, hi_ran>>

\* _mongoc_scram_cache_destroy on the caller's entry.
CacheDestroy ==
  /\ ~crashed
  /\ held # NULL
  /\ heap' = _mongoc_scram_cache_destroy(heap, held)
  /\ held' = NULL
  /\ lastop' = "cache_destroy"
  /\ UNCHANGED pure_vars
  /\ UNCHANGED <<scram, phase, sessions, rval, error, outbuf, outbuflen,
                 crashed, lastin, calls, failed, hi_ran>>

\* One call of _mongoc_scram_step; the caller has cleared its error record.
ScramStep(in) ==
  /\ Running
  /\ calls < MaxCalls
  /\ LET r == _mongoc_scram_step(scram, heap, NoError, in)
     IN /\ scram' = r.scram
        /\ heap' = r.heap
        /\ rval' = r.rval
        /\ error' = r.error
        /\ outbuf' = r.outbuf
        /\ outbuflen' = r.outbuflen
        /\ crashed' = r.crash
        /\ hi_ran' = r.hi
        /\ calls' = calls + 1
        /\ failed' = (failed \/ (calls > 0 /\ ~rval))
  /\ lastop' = "step"
  /\ UNCHANGED pure_vars
  /\ lastin' = in
  /\ UNCHANGED <<held, phase, sessions>>

ScramDestroy ==
  /\ Running
  /\ LET r == _mongoc_scram_destroy(heap, scram)
     IN scram' = r.scram /\ heap' = r.heap
  /\ phase' = "destroyed"
  /\ lastop' = "destroy"
  /\ UNCHANGED pure_vars
  /\ UNCHANGED <<held, sessions, rval, error, outbuf, outbuflen, crashed,
                 lastin, calls, failed, hi_ran>>

\* One session, every message a server may send.
Next ==
  \/ \E algo \in Algorithms : ScramInit(algo, FALSE)
  \/ SetUser(UserU, TRUE)
  \/ SetPass(PassP, TRUE)
  \/ \E in \in StepInputs(scram, TRUE) : ScramStep(in)
  \/ ScramDestroy

Spec == Init /\ [][Next]_vars

\* The caller of the second specification keeps to the contract: it stops
\* calling a session once a call returned false, and it takes the cache and
\* destroys the session when the conversation is over.
Orderly == scram.step = 0 \/ rval
Over == scram.step > 0 /\ (~rval \/ scram.step >= 3)

\* Sessions one after another, the caller carrying the cache between them.
NextCache ==
  \/ \E algo \in Algorithms : ScramInit(algo, TRUE)
  \/ SetUser(UserU, FALSE)
  \/ \E pass \in Passwords : SetPass(pass, FALSE)
  \/ SetCache
  \/ Over /\ GetCache
  \/ CacheDestroy
  \/ Orderly /\ \E in \in StepInputs(scram, FALSE) : ScramStep(in)
  \/ Over /\ ScramDestroy

SpecCache == Init /\ [][NextCache]_vars

\* The passwords the caller of the third specification tries: those SASLprep
\* is asked about go to SHA-256 sessions.
CallerPasswords ==
  IF scram.algorithm = "SHA_256" THEN PassPlain \cup PassControl ELSE {PassP}

\* One session with a server that keeps to the protocol: the caller varies
\* the user name, the password and its buffers.
NextCaller ==
  \/ \E algo \in Algorithms : ScramInit(algo, FALSE)
  \/ \E user \in Users : SetUser(user, TRUE)
  \/ ClearUser
  \/ \E pass \in CallerPasswords : SetPass(pass, TRUE)
  \/ \E in \in CallerInputs(scram) : ScramStep(in)
  \/ ScramDestroy

SpecCaller == Init /\ [][NextCaller]_vars

\* The passwords of the fourth specification: one of them is refused by
\* SASLprep in a SHA-256 session.
MemoryPasswords ==
  IF scram.algorithm = "SHA_256" THEN {PassP, <<127, Ascii.p>>} ELSE {PassP}

\* Sessions one after another: the password set anew, the cache given to a
\* session and destroyed at any time, sessions destroyed at any point of the
\* conversation, calls going on after a failure.
NextMemory ==
  \/ \E algo \in Algorithms : ScramInit(algo, TRUE)
  \/ SetUser(UserU, FALSE)
  \/ \E pass \in MemoryPasswords : SetPass(pass, TRUE)
  \/ SetCache
  \/ Over /\ GetCache
  \/ CacheDestroy
  \/ \E in \in StepInputs(scram, FALSE) : ScramStep(in)
  \/ ScramDestroy

SpecMemory == Init /\ [][NextMemory]_vars

\* The bytes at which the UTF-8 tables change their answer, and a letter.
LeadBytes ==
  {65, 127, 128, 191, 192, 193, 194, 223, 224, 225, 236, 237, 238, 239, 240,
   241, 243, 244, 245, 247, 248, 255}
TrailBytes == {65, 127, 128, 143, 144, 159, 160, 191, 192}

\* The longest sequence _mongoc_utf8_char_length knows: a lead byte and three
\* bytes behind it.
MaxTrail == 3
Trails == UNION {[1..n -> TrailBytes] : n \in 0..MaxTrail}

MaxFront == 1
FrontChars == {<<65>>, <<195, 169>>}

RECURSIVE FrontsOf(_)
\* Up to n well-formed characters: a letter or a two-byte character each.
FrontsOf(n) ==
  IF n = 0 THEN {<<>>}
  ELSE FrontsOf(n - 1)
         \cup {front \o ch : front \in FrontsOf(n - 1), ch \in FrontChars}

\* Well-formed characters in front of a lead byte and what follows it.
Utf8Strings ==
  {front \o <<lead>> \o trail :
     front \in FrontsOf(MaxFront), lead \in LeadBytes, trail \in Trails}

\* One call of _mongoc_utf8_string_length, char signed or unsigned.
Utf8StringLength(charSigned) ==
  /\ lastop = "none"
  /\ utf8_length' = _mongoc_utf8_string_length(utf8_string, charSigned)
  /\ lastop' = "utf8_string_length"
  /\ UNCHANGED <<scram, heap, held, phase, sessions, rval, error, outbuf,
                 outbuflen, crashed, lastin, calls, failed, hi_ran,
                 utf8_string, presecrets_match, unicode_arg, unicode_ret>>

InitUtf8 ==
  /\ scram = ZeroScram
  /\ heap = EmptyHeap
  /\ held = NULL
  /\ phase = "none"
  /\ sessions = 0
  /\ rval = FALSE
  /\ error = NoError
  /\ outbuf = <<>>
  /\ outbuflen = 0
  /\ crashed = FALSE
  /\ lastop = "none"
  /\ lastin = StepInput(<<>>, <<>>, <<>>, BufMax, RandOk, TRUE)
  /\ calls = 0
  /\ failed = FALSE
  /\ hi_ran = FALSE
  /\ utf8_string \in Utf8Strings
  /\ utf8_length = 0
  /\ presecrets_match = FALSE
  /\ unicode_arg = NoArg
  /\ unicode_ret = NoRet

NextUtf8 == \E charSigned \in BOOLEAN : Utf8StringLength(charSigned)

\* The UTF-8 functions on every string of the bounded set.
SpecUtf8 == InitUtf8 /\ [][NextUtf8]_vars

\* A decoded_salt buffer: the salt and zeros behind it.
SaltBuffer(salt) == Put(Zeros(MONGOC_SCRAM_B64_HASH_MAX_SIZE), salt)

\* The salts of the presecrets: the server's, one that differs from it in its
\* first byte, and 28-byte salts that begin like them.
Salt16Other == Put(Salt16, <<7>>)
Tail12 == Tup([j \in 1..12 |-> 40 + j], 12)
PresecretSalts(algorithm) ==
  IF algorithm = "SHA_1" THEN {Salt16, Salt16Other}
  ELSE {Salt16 \o Zeros(12), Salt16 \o Tail12, Salt16Other \o Tail12}

PassQ == <<Ascii.q>>
DoubleIterations == 8192
PresecretIterations == {MinIterations, DoubleIterations}

\* A session after line 760 of step 2 that holds a cache entry: its own
\* hashed_password in cell 1, the entry in cell 2, the entry's
\* hashed_password, if it has one, in cell 3.
PresecretsHeap(password, entry, hasPassword) ==
  [EmptyHeap EXCEPT
     ![1] = [kind |-> "str", val |-> password, ent |-> ZeroEntry],
     ![2] = [kind |-> "cache", val |-> <<>>,
             ent |-> [ZeroEntry EXCEPT
                        !.hashed_password = IF hasPassword THEN 3 ELSE NULL,
                        !.decoded_salt = SaltBuffer(entry.salt),
                        !.iterations = entry.iterations]],
     ![3] = IF hasPassword
            THEN [kind |-> "str", val |-> entry.password, ent |-> ZeroEntry]
            ELSE FreeCell]

PresecretsSession(algo, password, salt, iterations) ==
  [_mongoc_scram_init(algo) EXCEPT !.step = 2, !.hashed_password = 1,
                                   !.decoded_salt = SaltBuffer(salt),
                                   !.iterations = iterations, !.cache = 2]

PresecretEntries ==
  [password : {PassP, PassQ},
   salt : PresecretSalts("SHA_1") \cup PresecretSalts("SHA_256"),
   iterations : PresecretIterations]

\* One call of _mongoc_scram_cache_has_presecrets (scram->cache, scram).
HasPresecrets ==
  /\ lastop = "none"
  /\ scram.cache # NULL
  /\ presecrets_match'
       = _mongoc_scram_cache_has_presecrets(heap, scram.cache, scram)
  /\ lastop' = "has_presecrets"
  /\ UNCHANGED <<scram, heap, held, phase, sessions, rval, error, outbuf,
                 outbuflen, crashed, lastin, calls, failed, hi_ran,
                 utf8_string, utf8_length, unicode_arg, unicode_ret>>

InitPresecrets ==
  /\ \E algo \in Algorithms, password \in {PassP, PassQ},
        iterations \in PresecretIterations, entry \in PresecretEntries,
        hasPassword \in BOOLEAN :
       \E salt \in PresecretSalts(algo) :
         /\ scram = PresecretsSession(algo, password, salt, iterations)
         /\ heap = PresecretsHeap(password, entry, hasPassword)
  /\ held = NULL
  /\ phase = "live"
  /\ sessions = 1
  /\ rval = FALSE
  /\ error = NoError
  /\ outbuf = <<>>
  /\ outbuflen = 0
  /\ crashed = FALSE
  /\ lastop = "none"
  /\ lastin = StepInput(<<>>, <<>>, <<>>, BufMax, RandOk, TRUE)
  /\ calls = 1
  /\ failed = FALSE
  /\ hi_ran = FALSE
  /\ utf8_string = <<>>
  /\ utf8_length = 0
  /\ presecrets_match = FALSE
  /\ unicode_arg = NoArg
  /\ unicode_ret = NoRet

NextPresecrets == HasPresecrets

\* _mongoc_scram_cache_has_presecrets on every pair of the bounded sets.
SpecPresecrets == InitPresecrets /\ [][NextPresecrets]_vars

(***************************************************************************)
(* Hi on its own                                                           *)
(***************************************************************************)

MaxHi == 5
HiPasswords == {PassP, PassQ, PassEdge}

\* A session as step 2 has it before line 767: the password to derive from
\* in cell 1, a salt of hash_size - 4 bytes and an iteration count.
HiSession(algo, salt, iterations) ==
  [_mongoc_scram_init(algo) EXCEPT !.step = 2, !.hashed_password = 1,
                                   !.decoded_salt = SaltBuffer(salt),
                                   !.iterations = iterations]

HiHeap(password) ==
  [EmptyHeap EXCEPT
     ![1] = [kind |-> "str", val |-> password, ent |-> ZeroEntry]]

\* One call of _mongoc_scram_salt_password, as step 2 makes it.
SaltPassword ==
  /\ lastop = "none"
  /\ scram' = _mongoc_scram_salt_password(
                scram, StrVal(heap, scram.hashed_password),
                scram.decoded_salt, _scram_hash_size(scram.algorithm) - 4,
                scram.iterations)
  /\ hi_ran' = TRUE
  /\ lastop' = "salt_password"
  /\ UNCHANGED pure_vars
  /\ UNCHANGED <<heap, held, phase, sessions, rval, error, outbuf, outbuflen,
                 crashed, lastin, calls, failed>>

InitHi ==
  /\ \E algo \in Algorithms, password \in HiPasswords,
        iterations \in 1..MaxHi :
       \E salt \in PresecretSalts(algo) :
         /\ scram = HiSession(algo, salt, iterations)
         /\ heap = HiHeap(password)
  /\ held = NULL
  /\ phase = "live"
  /\ sessions = 1
  /\ rval = FALSE
  /\ error = NoError
  /\ outbuf = <<>>
  /\ outbuflen = 0
  /\ crashed = FALSE
  /\ lastop = "none"
  /\ lastin = StepInput(<<>>, <<>>, <<>>, BufMax, RandOk, TRUE)
  /\ calls = 1
  /\ failed = FALSE
  /\ hi_ran = FALSE
  /\ utf8_string = <<>>
  /\ utf8_length = 0
  /\ presecrets_match = FALSE
  /\ unicode_arg = NoArg
  /\ unicode_ret = NoRet

NextHi == SaltPassword

\* _mongoc_scram_salt_password on every input of the bounded sets.
SpecHi == InitHi /\ [][NextHi]_vars

(***************************************************************************)
(* The code point functions and SASLprep on their own                      *)
(***************************************************************************)

\* The UTF-8 form of a code point (RFC 3629).
Utf8Encoding(cp) ==
  IF cp < 128 THEN <<cp>>
  ELSE IF cp < 2048 THEN <<192 + (cp \div 64), 128 + (cp % 64)>>
  ELSE IF cp < 65536
  THEN <<224 + (cp \div 4096), 128 + ((cp \div 64) % 64), 128 + (cp % 64)>>
  ELSE <<240 + (cp \div 262144), 128 + ((cp \div 4096) % 64),
         128 + ((cp \div 64) % 64), 128 + (cp % 64)>>

RECURSIVE Utf8Text(_)
Utf8Text(cps) ==
  IF cps = <<>> THEN <<>> ELSE Utf8Encoding(Head(cps)) \o Utf8Text(Tail(cps))

\* Code points of passwords: letters, a space and a character that maps to
\* nothing, right-to-left letters, prohibited and unassigned ones, and a
\* letter outside the basic plane.
PrepCodes ==
  {112, 65, 160, 173, 8192, 1488, 1575, 127, 128, 545, 65536, 119808}

MaxPrep == 2
PrepPasswords ==
  {Utf8Text(cps) : cps \in UNION {[1..n -> PrepCodes] : n \in 0..MaxPrep}}

\* The first and the last scalar value of every length, and the values
\* around the surrogates.
ScalarValues ==
  {0, 65, 127, 128, 2047, 2048, 55295, 57344, 65535, 65536, 1114111}

\* Strings that are not UTF-8.
IllFormed == {<<128>>, <<237, 160, 128>>, <<112, 192, 128>>}

UnicodeStrings ==
  PrepPasswords \cup {Utf8Encoding(cp) : cp \in ScalarValues} \cup IllFormed

TableArgs ==
  [code : {0, 9, 10, 15, 20, 21, 25, 30, 31, 160, 8200, 66000},
   table : {<<>>, <<10, 20>>, <<10, 20, 30, 30>>,
            non_ascii_space_character_ranges}]

\* Where the unsigned int handed to _mongoc_unicode_to_utf8 may lie: nothing
\* in the code restricts the address.
PointerValues == {64, 1024, 32768, 1048576, 2147418112}

\* _mongoc_is_code_in_table (code, table, lengthof (table)).
IsCodeInTable ==
  /\ lastop = "none"
  /\ utf8_string = <<>>
  /\ unicode_ret' = [found |-> _mongoc_is_code_in_table(
                                 unicode_arg.code, unicode_arg.table,
                                 Len(unicode_arg.table))]
  /\ lastop' = "is_code_in_table"
  /\ UNCHANGED <<scram, heap, held, phase, sessions, rval, error, outbuf,
                 outbuflen, crashed, lastin, calls, failed, hi_ran,
                 utf8_string, utf8_length, presecrets_match, unicode_arg>>

\* The name _mongoc_sasl_prep gives to _mongoc_sasl_prep_impl.
PasswordName == <<"password">>

\* _mongoc_sasl_prep (in_utf8, in_utf8_len, err) with MONGOC_ENABLE_ICU.
SaslPrep(charSigned) ==
  /\ lastop = "none"
  /\ unicode_arg = NoArg
  /\ unicode_ret' = _mongoc_sasl_prep_impl(PasswordName, utf8_string, error,
                                           charSigned)
  /\ error' = unicode_ret'.error
  /\ lastop' = "sasl_prep"
  /\ UNCHANGED <<scram, heap, held, phase, sessions, rval, outbuf, outbuflen,
                 crashed, lastin, calls, failed, hi_ran, utf8_string,
                 utf8_length, presecrets_match, unicode_arg>>

\* The first character of the string decoded, and the code point encoded
\* again from an unsigned int at the address ptr.
CodePointRoundTrip(ptr, charSigned) ==
  /\ lastop = "none"
  /\ unicode_arg = NoArg
  /\ utf8_string # <<>>
  /\ unicode_arg'
       = [code |-> _mongoc_utf8_to_unicode(
                     utf8_string, 1, _mongoc_utf8_char_length(utf8_string[1]),
                     charSigned),
          table |-> <<>>, c |-> ptr]
  /\ unicode_ret'
       = [encoded |-> _mongoc_unicode_to_utf8(ptr, unicode_arg'.code),
          length |-> _mongoc_unicode_codepoint_length(ptr)]
  /\ lastop' = "round_trip"
  /\ UNCHANGED <<scram, heap, held, phase, sessions, rval, error, outbuf,
                 outbuflen, crashed, lastin, calls, failed, hi_ran,
                 utf8_string, utf8_length, presecrets_match>>

InitUnicode ==
  /\ \/ utf8_string \in UnicodeStrings /\ unicode_arg = NoArg
     \/ utf8_string = <<>> /\ unicode_arg \in TableArgs
  /\ scram = ZeroScram
  /\ heap = EmptyHeap
  /\ held = NULL
  /\ phase = "none"
  /\ sessions = 0
  /\ rval = FALSE
  /\ error = NoError
  /\ outbuf = <<>>
  /\ outbuflen = 0
  /\ crashed = FALSE
  /\ lastop = "none"
  /\ lastin = StepInput(<<>>, <<>>, <<>>, BufMax, RandOk, TRUE)
  /\ calls = 0
  /\ failed = FALSE
  /\ hi_ran = FALSE
  /\ utf8_length = 0
  /\ presecrets_match = FALSE
  /\ unicode_ret = NoRet

NextUnicode ==
  \/ IsCodeInTable
  \/ \E charSigned \in BOOLEAN : SaslPrep(charSigned)
  \/ \E ptr \in PointerValues, charSigned \in BOOLEAN :
       CodePointRoundTrip(ptr, charSigned)

\* The code point functions and _mongoc_sasl_prep of a build with
\* MONGOC_ENABLE_ICU on every input of the bounded sets.
SpecUnicode == InitUnicode /\ [][NextUnicode]_vars

(***************************************************************************)
(* Properties                                                              *)
(***************************************************************************)

\* The last transition was a _mongoc_scram_step call that returned.
Stepped == lastop = "step" /\ ~crashed

\* The attributes of the last server-first message, as step 2 reads them.
LastFirst == ParseAttrs(lastin.inbuf, lastin.past, {Ascii.r, Ascii.s, Ascii.i})
LastR == LastFirst.vals[Ascii.r]
LastS == LastFirst.vals[Ascii.s]
LastI == LastFirst.vals[Ascii.i]

\* The session holds no presecrets and no derived keys.
NothingRecorded(s) ==
  /\ s.hashed_password = NULL
  /\ s.iterations = 0
  /\ s.decoded_salt = Zeros(MONGOC_SCRAM_B64_HASH_MAX_SIZE)
  /\ s.salted_password = Zeros(MONGOC_SCRAM_HASH_MAX_SIZE)
  /\ s.client_key = Zeros(MONGOC_SCRAM_HASH_MAX_SIZE)
  /\ s.server_key = Zeros(MONGOC_SCRAM_HASH_MAX_SIZE)

\* C1: once a _mongoc_scram_step call on a session has returned false, every
\* later call on that session returns false as well.
C1_FailuresAreFatal == failed => ~rval

\* C2: a server-first message with r, s and i whose r is shorter than the
\* client's encoded nonce or does not begin with it makes the second call
\* return false with a protocol error, and nothing is recorded.
C2_NonceMismatchAborts ==
  (/\ Stepped
   /\ scram.step = 2
   /\ LastFirst.status = "ok"
   /\ LastR.set /\ LastS.set /\ LastI.set
   /\ NonceNotRepeated(scram, LastR.val))
  => /\ ~rval
     /\ error.code = "PROTOCOL_ERROR"
     /\ NothingRecorded(scram)

\* The text is a decimal number, an optional minus sign and digits.
IsDecimal(text) ==
  LET body == IF Len(text) > 0 /\ text[1] = Ascii.minus THEN Tail(text)
              ELSE text
  IN Len(body) > 0 /\ \A k \in 1..Len(body) : IsDigit(body[k])

\* The number a decimal text of at most four digits denotes.
SmallValue(digits) ==
  LET D(k) == IF k <= Len(digits) THEN digits[Len(digits) + 1 - k] - Ascii.zero
              ELSE 0
  IN D(1) + 10 * D(2) + 100 * D(3) + 1000 * D(4)

\* The i value is below 4096: a negative number, a number below 4096, or
\* digits with something that is no digit behind them.
BelowFloor(text) ==
  \/ /\ IsDecimal(text)
     /\ text[1] = Ascii.minus
     /\ \E k \in 2..Len(text) : text[k] # Ascii.zero
  \/ /\ IsDecimal(text)
     /\ text[1] # Ascii.minus
     /\ Len(text) <= 4
     /\ SmallValue(text) < MinIterations
  \/ /\ Len(text) > 1
     /\ ~IsDigit(text[Len(text)])
     /\ IsDecimal(Take(text, Len(text) - 1))

\* The last call was a second call on a prepared session and the fields of
\* its message other than i are valid.
OtherFieldsValid ==
  /\ Stepped
  /\ scram.step = 2
  /\ ~failed
  /\ scram.user # NULL /\ scram.pass # NULL
  /\ LastFirst.status = "ok"
  /\ LastR.set /\ LastS.set /\ LastI.set
  /\ LastR.val = ServerNonce(scram)
  /\ LastS.val = GoodSalt(scram)
  /\ lastin.outbufmax = BufMax /\ scram.auth_messagemax = BufMax

\* C3: with the other fields valid, an i below 4096 makes step 2 return
\* false with a protocol error and an i of exactly 4096 makes it return true.
C3_IterationFloor ==
  OtherFieldsValid
  => /\ BelowFloor(LastI.val) => (~rval /\ error.code = "PROTOCOL_ERROR")
     /\ LastI.val = GoodIterations => rval

\* The attributes of the last server-final message, as step 3 reads them.
LastFinal == ParseAttrs(lastin.inbuf, lastin.past, {Ascii.e, Ascii.v})
LastE == LastFinal.vals[Ascii.e]
LastV == LastFinal.vals[Ascii.v]

\* The last call was a third call that read a v and no e.
VerifiedV ==
  /\ Stepped
  /\ scram.step = 3
  /\ LastFinal.status = "ok"
  /\ LastV.set /\ ~LastE.set

\* C4: the third call returns true only if v is, in length and in every
\* byte, base64(HMAC(ServerKey, auth_message)) with
\* ServerKey = HMAC(salted_password, "Server Key"); any other v makes it
\* return false with a protocol error.
C4_SignatureVerification ==
  VerifiedV
  => /\ rval => LastV.val = ExpectedSignature(scram)
     /\ LastV.val # ExpectedSignature(scram)
          => (~rval /\ error.code = "PROTOCOL_ERROR")

\* The positions of msg where an attribute with this key begins.
AttrStarts(msg, key) ==
  {k \in 1..(Len(msg) - 1) :
     /\ k = 1 \/ msg[k - 1] = Ascii.comma
     /\ msg[k] = key
     /\ msg[k + 1] = Ascii.eq}

\* The text of the attribute that begins at position k.
AttrText(msg, k) ==
  LET stop == FindComma(msg, k + 2, Len(msg))
  IN SubSeq(msg, k + 2, IF stop = 0 THEN Len(msg) ELSE stop - 1)

AuthenticationFailure ==
  "SCRAM Failure: authentication failure in sasl step 3 : %s"
NoVParam == "SCRAM Failure: no v param in sasl step 3"

\* C5, as stated: a server-final message with an e attribute makes step 3
\* return false with a protocol error that carries the e text, a correct v
\* notwithstanding; one with neither e nor v makes it return false with the
\* "no v param" protocol error.
C5_ServerFinalErrors ==
  (Stepped /\ scram.step = 3)
  => /\ AttrStarts(lastin.inbuf, Ascii.e) # {}
          => /\ ~rval
             /\ error.code = "PROTOCOL_ERROR"
             /\ error.msg = AuthenticationFailure
             /\ \E k \in AttrStarts(lastin.inbuf, Ascii.e) :
                  error.arg = AttrText(lastin.inbuf, k)
     /\ (AttrStarts(lastin.inbuf, Ascii.e) = {}
         /\ AttrStarts(lastin.inbuf, Ascii.v) = {})
          => /\ ~rval
             /\ error.code = "PROTOCOL_ERROR"
             /\ error.msg = NoVParam

\* C5, amended: the same of a server-final message that parses, that is, one
\* made of e and v attributes only; the e text carried is that of the last e.
C5_ServerFinalErrorsParsed ==
  (Stepped /\ scram.step = 3 /\ LastFinal.status = "ok")
  => /\ LastE.set
          => /\ ~rval
             /\ error.code = "PROTOCOL_ERROR"
             /\ error.msg = AuthenticationFailure
             /\ error.arg = LastE.val
     /\ (~LastE.set /\ ~LastV.set)
          => /\ ~rval
             /\ error.code = "PROTOCOL_ERROR"
             /\ error.msg = NoVParam

\* A third call read an e next to the v that would have verified.
C5_ErrorBesideCorrectV ==
  /\ Stepped
  /\ scram.step = 3
  /\ LastFinal.status = "ok"
  /\ LastE.set
  /\ LastV.set /\ LastV.val = ExpectedSignature(scram)
  /\ ~failed
  /\ ~rval
  /\ error.arg = Abc

\* What a cache entry holds, the characters of its hashed_password string
\* included; the entry at NULL holds nothing.
CacheView(h, a) ==
  LET c == EntryAt(h, a)
  IN [present |-> a # NULL,
      live |-> IsLive(h, a),
      has_password |-> c.hashed_password # NULL,
      password_live |-> IsLive(h, c.hashed_password),
      hashed_password |-> StrVal(h, c.hashed_password),
      decoded_salt |-> c.decoded_salt,
      iterations |-> c.iterations,
      client_key |-> c.client_key,
      server_key |-> c.server_key,
      salted_password |-> c.salted_password]

\* The session's cache entry is one of its own that holds the session's
\* presecrets and secrets.
Committed(s, h) ==
  LET c == CacheView(h, s.cache)
  IN /\ c.present /\ c.live
     /\ c.has_password /\ c.password_live
     /\ EntryAt(h, s.cache).hashed_password # s.hashed_password
     /\ s.hashed_password # NULL
     /\ c.hashed_password = StrVal(h, s.hashed_password)
     /\ c.iterations = s.iterations
     /\ c.decoded_salt = s.decoded_salt
     /\ c.salted_password = s.salted_password
     /\ c.client_key = s.client_key
     /\ c.server_key = s.server_key

\* C6: a third call that returns true replaces the session's cache entry by
\* a new one that holds the session's hashed_password, iterations,
\* decoded_salt, salted_password, client_key and server_key; a third call
\* that returns false, and every first and second call, leaves the session's
\* cache entry as it was.
C6_CacheCommitOnlyOnSuccess ==
  [][(lastop' = "step" /\ ~crashed' /\ scram'.step \in 1..3)
     => IF scram'.step = 3 /\ rval'
        THEN Committed(scram', heap')
        ELSE /\ scram'.cache = scram.cache
             /\ CacheView(heap', scram'.cache) = CacheView(heap, scram.cache)]_vars

\* A later session, given the cache of an earlier one, has committed an entry
\* of its own by a successful third call.
C6_CommittedOverGivenEntry ==
  /\ Stepped
  /\ sessions = 2
  /\ scram.step = 3 /\ rval
  /\ held # NULL
  /\ Committed(scram, heap)
  /\ CacheView(heap, scram.cache) # CacheView(heap, held)

\* Step 2 found the presecrets of the session's cache entry to match.
CacheHit ==
  /\ Stepped
  /\ scram.step = 2 /\ rval
  /\ scram.cache # NULL
  /\ _mongoc_scram_cache_has_presecrets(heap, scram.cache, scram)

\* The secrets a derivation from the session's presecrets under the
\* session's algorithm yields.
FreshSecrets(s, h) ==
  LET size == _scram_hash_size(s.algorithm)
      zero == Zeros(MONGOC_SCRAM_HASH_MAX_SIZE)
      salted == _mongoc_scram_salt_password(
                  [s EXCEPT !.salted_password = zero],
                  StrVal(h, s.hashed_password), s.decoded_salt, size - 4,
                  s.iterations).salted_password
  IN [salted_password |-> salted,
      client_key |-> Put(zero, mongoc_crypto_hmac(s.algorithm,
                                                  Take(salted, size),
                                                  MONGOC_SCRAM_CLIENT_KEY)),
      server_key |-> Put(zero, mongoc_crypto_hmac(s.algorithm,
                                                  Take(salted, size),
                                                  MONGOC_SCRAM_SERVER_KEY))]

\* C7: when step 2 finds the presecrets of the cache entry to match, the
\* session's salted_password, client_key and server_key are those a fresh
\* derivation under the session's own algorithm yields, and the Hi loop has
\* not run.
C7_CacheHitEqualsFresh ==
  CacheHit
  => /\ ~hi_ran
     /\ scram.salted_password = FreshSecrets(scram, heap).salted_password
     /\ scram.client_key = FreshSecrets(scram, heap).client_key
     /\ scram.server_key = FreshSecrets(scram, heap).server_key

\* The entry the session got is a copy of its own of the entry the caller
\* holds, and the other way round.
IndependentCopies(h, a, b) ==
  /\ a # NULL /\ b # NULL /\ a # b
  /\ IsLive(h, a) /\ IsLive(h, b)
  /\ CacheView(h, a) = CacheView(h, b)
  /\ \/ ~CacheView(h, a).has_password
     \/ EntryAt(h, a).hashed_password # EntryAt(h, b).hashed_password

\* C8: get_cache and set_cache make deep copies: whatever is done to the
\* session afterwards leaves the caller's entry, hashed_password string
\* included, as it was, and destroying the caller's entry leaves the
\* session's entry as it was; get_cache on a session without a cache entry
\* returns none.
C8_CacheEntriesAreCopies ==
  [][/\ (held # NULL /\ lastop' # "cache_destroy")
          => /\ held' = held
             /\ CacheView(heap', held') = CacheView(heap, held)
     /\ (scram.cache # NULL /\ lastop' \in {"cache_destroy", "get_cache"})
          => /\ scram'.cache = scram.cache
             /\ CacheView(heap', scram'.cache) = CacheView(heap, scram.cache)
     /\ lastop' = "get_cache"
          => IF scram.cache = NULL THEN held' = NULL
             ELSE IndependentCopies(heap', held', scram'.cache)
     /\ lastop' = "set_cache"
          => IndependentCopies(heap', scram'.cache, held')]_vars

\* The session that was given the caller's entry is gone, its own entry with
\* it, and the caller's entry is whole.
C8_CallerEntryOutlivesSession ==
  /\ lastop = "destroy"
  /\ sessions = 2
  /\ held # NULL
  /\ CacheView(heap, held).live
  /\ CacheView(heap, held).password_live
  /\ FreeCount(heap) = HeapSize - 2

\* C9, as stated: the step field of an initialised session is within 0..3.
C9_StepAtMostThree ==
  (phase = "live" /\ ~crashed) => (0 <= scram.step /\ scram.step <= 3)

\* C9, amended: the step field of an initialised session is the number of
\* _mongoc_scram_step calls made on it, the calls past the third counted as
\* well; a call that leaves it above 3 has returned false with NOT_DONE.
C9_StepCountsCalls ==
  (phase = "live" /\ ~crashed)
  => /\ 0 <= scram.step
     /\ scram.step = calls
     /\ scram.step > 3 => (~rval /\ error.code = "NOT_DONE")

\* A fourth call has been made.
C9_FourthCall ==
  /\ Stepped
  /\ phase = "live"
  /\ scram.step = 4
  /\ ~rval
  /\ error.code = "NOT_DONE"

\* C10: once three calls have been made on a session, every further call
\* returns false with error code NOT_DONE and leaves auth_message, the
\* presecrets, the secrets and the cache entry as they were.
C10_FurtherCallsRefused ==
  [][(lastop' = "step" /\ calls >= 3)
     => /\ ~crashed'
        /\ ~rval'
        /\ error'.domain = "SCRAM"
        /\ error'.code = "NOT_DONE"
        /\ scram'.auth_message = scram.auth_message
        /\ scram'.auth_messagelen = scram.auth_messagelen
        /\ scram'.hashed_password = scram.hashed_password
        /\ StrVal(heap', scram'.hashed_password)
             = StrVal(heap, scram.hashed_password)
        /\ scram'.iterations = scram.iterations
        /\ scram'.decoded_salt = scram.decoded_salt
        /\ scram'.salted_password = scram.salted_password
        /\ scram'.client_key = scram.client_key
        /\ scram'.server_key = scram.server_key
        /\ scram'.cache = scram.cache
        /\ CacheView(heap', scram'.cache) = CacheView(heap, scram.cache)]_vars

\* A call past the third was given the server-final message that the third
\* call had accepted, and was refused.
C10_RefusedAfterSuccess ==
  /\ Stepped
  /\ calls > 3
  /\ ~failed
  /\ LastV.set /\ LastV.val = ExpectedSignature(scram)
  /\ scram.cache # NULL
  /\ ~rval
  /\ error.code = "NOT_DONE"


(***************************************************************************)
(* The first message and the auth message                                  *)
(***************************************************************************)

\* What the caller finds in its buffer after the call.
Written == Take(outbuf, outbuflen)

AuthMessage(s) == Take(s.auth_message, s.auth_messagelen)

NotSetError == "SCRAM Failure: username is not set"

\* C11: a first call on a session whose user is unset or empty returns false
\* with the protocol error "username is not set" and adds nothing to the
\* caller's buffer.
C11_UsernameRequired ==
  (/\ Stepped
   /\ scram.step = 1
   /\ scram.user = NULL \/ StrVal(heap, scram.user) = <<>>)
  => /\ ~rval
     /\ error.domain = "SCRAM" /\ error.code = "PROTOCOL_ERROR"
     /\ error.msg = NotSetError
     /\ outbuflen = lastin.outbuflen

RECURSIVE Escape(_)
\* RFC 5802's saslname: "=2C" for a comma, "=3D" for an equals sign.
Escape(user) ==
  IF user = <<>> THEN <<>>
  ELSE (IF Head(user) = Ascii.comma THEN <<Ascii.eq, 50, 67>>
        ELSE IF Head(user) = Ascii.eq THEN <<Ascii.eq, 51, 68>>
        ELSE <<Head(user)>>) \o Escape(Tail(user))

RECURSIVE Unescape(_)
\* What a server makes of a saslname.
Unescape(name) ==
  IF name = <<>> THEN <<>>
  ELSE IF Len(name) >= 3 /\ SubSeq(name, 1, 3) = <<Ascii.eq, 50, 67>>
  THEN <<Ascii.comma>> \o Unescape(SubSeq(name, 4, Len(name)))
  ELSE IF Len(name) >= 3 /\ SubSeq(name, 1, 3) = <<Ascii.eq, 51, 68>>
  THEN <<Ascii.eq>> \o Unescape(SubSeq(name, 4, Len(name)))
  ELSE <<Head(name)>> \o Unescape(Tail(name))

\* client-first-message-bare of the session: n=<saslname>,r=<nonce>.
ClientFirstBare(s, h) ==
  <<Ascii.n, Ascii.eq>> \o Escape(StrVal(h, s.user))
    \o <<Ascii.comma, Ascii.r, Ascii.eq>>
    \o Take(s.encoded_nonce, s.encoded_nonce_len)

Gs2Header == <<Ascii.n, Ascii.comma, Ascii.comma>>

\* A first call that returned true on a session with a user name.
FirstDone ==
  /\ Stepped /\ scram.step = 1 /\ rval
  /\ scram.user # NULL /\ StrVal(heap, scram.user) # <<>>

\* C12: a successful first call leaves exactly "n,,n=" + escape(user) +
\* ",r=" + encoded_nonce in the caller's buffer; the escaped user has no
\* comma in it and unescaping it gives the user back.
C12_ClientFirstMessage ==
  FirstDone
  => /\ Written = Gs2Header \o ClientFirstBare(scram, heap)
     /\ \A k \in 1..Len(Escape(StrVal(heap, scram.user))) :
          Escape(StrVal(heap, scram.user))[k] # Ascii.comma
     /\ Unescape(Escape(StrVal(heap, scram.user))) = StrVal(heap, scram.user)

\* client-final-message-without-proof for the server's nonce.
ClientFinalWithoutProof(val_r) == ClientFinalHead \o val_r

\* C13: after a successful first call the auth message is
\* client-first-message-bare and a comma; after a successful second call it
\* is that, the whole server-first message, a comma and
\* client-final-message-without-proof; the third call leaves it as it is.
C13_AuthMessageComposition ==
  [][(lastop' = "step" /\ ~crashed')
     => /\ (scram'.step = 1 /\ rval')
           => AuthMessage(scram')
                = ClientFirstBare(scram', heap') \o <<Ascii.comma>>
        /\ (scram'.step = 2 /\ rval')
           => AuthMessage(scram')
                = ClientFirstBare(scram', heap') \o <<Ascii.comma>>
                    \o lastin'.inbuf \o <<Ascii.comma>>
                    \o ClientFinalWithoutProof(LastR'.val)
        /\ scram'.step = 3 => AuthMessage(scram') = AuthMessage(scram)]_vars

BufferAuthError ==
  "SCRAM Failure: could not buffer auth message in sasl step2"

\* The second call got as far as its first append to the auth message.
PasswordPrepared(s, h, in) ==
  /\ ~PreparePassword(s, h, NoError, in.nullText).crash
  /\ ~PreparePassword(s, h, NoError, in.nullText).null

\* The second call got as far as its second append: the message has r, s
\* and i, and outbuf has room for client-final-message-without-proof.
FinalBuffered(in) ==
  /\ ParseAttrs(in.inbuf, in.past, {Ascii.r, Ascii.s, Ascii.i}).status = "ok"
  /\ \A k \in {Ascii.r, Ascii.s, Ascii.i} :
       ParseAttrs(in.inbuf, in.past, {Ascii.r, Ascii.s, Ascii.i}).vals[k].set
  /\ Len(ClientFinalWithoutProof(
           ParseAttrs(in.inbuf, in.past,
                      {Ascii.r, Ascii.s, Ascii.i}).vals[Ascii.r].val))
       < in.outbufmax

\* What the second call appends first, and what it appends in all.
FirstAppend(in) == Len(in.inbuf) + 1
BothAppends(in) ==
  FirstAppend(in)
  + Len(ClientFinalWithoutProof(
          ParseAttrs(in.inbuf, in.past,
                     {Ascii.r, Ascii.s, Ascii.i}).vals[Ascii.r].val))

\* C14: the auth message never outgrows the capacity step 1 gave it, and a
\* second call whose append to it would go beyond that capacity returns
\* false with the protocol error "could not buffer auth message".
C14_AuthMessageBound ==
  [][/\ scram'.auth_messagelen <= scram'.auth_messagemax
     /\ Len(scram'.auth_message) <= scram'.auth_messagemax
     /\ (/\ lastop' = "step" /\ scram'.step = 2
         /\ PasswordPrepared(scram, heap, lastin')
         /\ \/ scram.auth_messagelen + FirstAppend(lastin')
                 > scram.auth_messagemax
            \/ /\ FinalBuffered(lastin')
               /\ scram.auth_messagelen + BothAppends(lastin')
                    > scram.auth_messagemax)
        => /\ ~crashed' /\ ~rval'
           /\ error'.domain = "SCRAM" /\ error'.code = "PROTOCOL_ERROR"
           /\ error'.msg = BufferAuthError]_vars

\* A second call stopped at its second append: the server's message went
\* into the auth message, client-final-message-without-proof did not.
C14_SecondAppendRefused ==
  /\ Stepped /\ scram.step = 2 /\ ~rval
  /\ error.msg = BufferAuthError
  /\ scram.auth_messagemax = MostMax
  /\ scram.auth_messagelen > MidMax
  /\ scram.auth_messagelen + Len(ClientFinalWithoutProof(LastR.val))
       > scram.auth_messagemax

(***************************************************************************)
(* The server's first message                                              *)
(***************************************************************************)

\* The padding at the end of a base64 text: 0, 1 or 2 equals signs.
Padding(text) ==
  IF Len(text) >= 2 /\ text[Len(text)] = Ascii.eq
                    /\ text[Len(text) - 1] = Ascii.eq THEN 2
  ELSE IF Len(text) >= 1 /\ text[Len(text)] = Ascii.eq THEN 1
  ELSE 0

\* RFC 4648: groups of four characters of the alphabet, the last group
\* padded with equals signs.
IsBase64(text) ==
  /\ Len(text) % 4 = 0
  /\ \A k \in 1..(Len(text) - Padding(text)) :
       \/ text[k] \in Ascii.upA..Ascii.upZ
       \/ text[k] \in Ascii.a..Ascii.lowz
       \/ text[k] \in Ascii.zero..Ascii.nine
       \/ text[k] \in {Ascii.plus, Ascii.slash}

\* The number of bytes a base64 text stands for.
DecodedLength(text) == 3 * (Len(text) \div 4) - Padding(text)

ExpectedSaltLength(s) ==
  IF s.algorithm = "SHA_1" THEN 16 ELSE 28

\* C15: a second call whose s value is not base64, or decodes to a length
\* other than hash_size - 4 (16 bytes for SHA-1, 28 for SHA-256), returns
\* false with a protocol error; a salt of that length is accepted when the
\* other fields are valid.
C15_SaltValidation ==
  /\ (/\ Stepped /\ scram.step = 2
      /\ LastFirst.status = "ok" /\ LastS.set
      /\ \/ ~IsBase64(LastS.val)
         \/ DecodedLength(LastS.val) # ExpectedSaltLength(scram))
     => /\ ~rval
        /\ error.domain = "SCRAM" /\ error.code = "PROTOCOL_ERROR"
  /\ (/\ Stepped /\ scram.step = 2 /\ ~failed
      /\ scram.user # NULL /\ scram.pass # NULL
      /\ lastin.outbufmax = BufMax /\ scram.auth_messagemax = BufMax
      /\ LastFirst.status = "ok" /\ LastR.set /\ LastS.set /\ LastI.set
      /\ LastR.val = ServerNonce(scram)
      /\ LastI.val = GoodIterations
      /\ IsBase64(LastS.val)
      /\ DecodedLength(LastS.val) = ExpectedSaltLength(scram))
     => rval

\* A SHA-256 session was sent the 16 bytes a SHA-1 session asks for, in a
\* message that is valid otherwise.
C15_Sha1SaltRefused ==
  /\ Stepped /\ scram.step = 2 /\ ~rval
  /\ scram.algorithm = "SHA_256"
  /\ LastFirst.status = "ok" /\ LastR.set /\ LastS.set /\ LastI.set
  /\ LastR.val = ServerNonce(scram) /\ LastI.val = GoodIterations
  /\ IsBase64(LastS.val) /\ DecodedLength(LastS.val) = 16
  /\ error.msg = "SCRAM Failure: invalid salt length of %d in sasl step2"
  /\ error.arg = <<16>>

ServerFirstKeys == {Ascii.r, Ascii.s, Ascii.i}

RECURSIVE Attributes(_)
\* The attributes of a message: what stands between its commas.
Attributes(text) ==
  IF FindComma(text, 1, Len(text)) = 0 THEN <<text>>
  ELSE <<SubSeq(text, 1, FindComma(text, 1, Len(text)) - 1)>>
         \o Attributes(SubSeq(text, FindComma(text, 1, Len(text)) + 1,
                              Len(text)))

\* An attribute whose key is none of keys or is not followed by "=".
BadAttribute(attr, keys) ==
  \/ Len(attr) >= 1 /\ attr[1] \notin keys
  \/ Len(attr) = 1
  \/ Len(attr) >= 2 /\ attr[2] # Ascii.eq

\* A message with a bad attribute or without one of the keys.
Malformed(text, keys) ==
  \/ \E k \in 1..Len(Attributes(text)) : BadAttribute(Attributes(text)[k], keys)
  \/ \E key \in keys :
       \A k \in 1..Len(Attributes(text)) :
         Attributes(text)[k] = <<>> \/ Attributes(text)[k][1] # key

\* The last call was a second call that came to parse its message: the
\* first call succeeded with a large buffer and the password is set.
SecondParsing ==
  /\ lastop = "step" /\ scram.step = 2 /\ ~failed
  /\ scram.user # NULL /\ scram.pass # NULL
  /\ scram.auth_messagemax = BufMax /\ lastin.outbufmax = BufMax

\* C16: a second call returns false with a protocol error when its message
\* has a key other than r, s and i, a key not followed by "=" (a key that
\* is the last byte included) or lacks one of r, s and i; and the parser
\* reads nothing outside the inlen bytes of inbuf.
C16_ServerFirstParsing ==
  SecondParsing
  => /\ ParseAttrs(lastin.inbuf, <<>>, ServerFirstKeys).status # "fault"
     /\ ParseAttrs(lastin.inbuf, lastin.past, ServerFirstKeys)
          = ParseAttrs(lastin.inbuf, <<>>, ServerFirstKeys)
     /\ ~crashed
     /\ Malformed(lastin.inbuf, ServerFirstKeys)
        => /\ ~rval
           /\ error.domain = "SCRAM" /\ error.code = "PROTOCOL_ERROR"

(***************************************************************************)
(* The client's final message                                              *)
(***************************************************************************)

\* ClientKey := HMAC(SaltedPassword, "Client Key")
ClientKeyOf(s) ==
  mongoc_crypto_hmac(s.algorithm,
                     Take(s.salted_password, _scram_hash_size(s.algorithm)),
                     MONGOC_SCRAM_CLIENT_KEY)

\* ClientProof := ClientKey XOR HMAC(H(ClientKey), AuthMessage), in base64.
ExpectedProof(s) ==
  B64Encode(XorBytes(ClientKeyOf(s),
                     mongoc_crypto_hmac(s.algorithm,
                                        mongoc_crypto_hash(s.algorithm,
                                                           ClientKeyOf(s)),
                                        AuthMessage(s)),
                     _scram_hash_size(s.algorithm)))

\* C17: a successful second call leaves exactly "c=biws,r=" + the server's r
\* + ",p=" + base64(ClientKey XOR HMAC(H(ClientKey), auth_message)) in the
\* caller's buffer, ClientKey being HMAC(salted_password, "Client Key").
C17_ClientFinalMessage ==
  (Stepped /\ scram.step = 2 /\ rval)
  => Written = ClientFinalWithoutProof(LastR.val) \o ClientFinalProofKey
                 \o ExpectedProof(scram)

(***************************************************************************)
(* Errors                                                                  *)
(***************************************************************************)

\* C18: when _mongoc_scram_step returns false the error record holds a SCRAM
\* error whose code is the protocol error or "not done"; and a call that
\* wrote a SCRAM error into the record returned false.
C18_ErrorReporting ==
  Stepped
  => /\ ~rval => /\ error.domain = "SCRAM"
                 /\ error.code \in {"PROTOCOL_ERROR", "NOT_DONE"}
     /\ error.domain = "SCRAM" => ~rval

IcuError == "SCRAM Failure: ICU required to SASLPrep password"

\* A byte in [0x00, 0x1F] or [0x7F, 0xFF] is in the text.
HasControlOrHighByte(text) ==
  \E k \in 1..Len(text) : text[k] \in (0..31) \cup (127..255)

\* The second call of a SHA-256 session with a password.
Sha256Second ==
  /\ Stepped /\ scram.step = 2
  /\ scram.algorithm = "SHA_256" /\ scram.pass # NULL

\* C19: without ICU the second call of a SHA-256 session returns false with
\* the protocol error "ICU required to SASLPrep password" exactly when the
\* password has a byte in [0x00, 0x1F] or [0x7F, 0xFF]; otherwise the
\* hashed_password that is recorded and that the salted password is derived
\* from is the password, byte for byte.
C19_SaslPrepWithoutIcu ==
  Sha256Second
  => /\ HasControlOrHighByte(StrVal(heap, scram.pass))
        <=> (~rval /\ error = ProtocolError(IcuError))
     /\ (/\ ~HasControlOrHighByte(StrVal(heap, scram.pass))
         /\ scram.hashed_password # NULL)
        => StrVal(heap, scram.hashed_password) = StrVal(heap, scram.pass)
     /\ (rval /\ hi_ran)
        => Take(scram.salted_password, MONGOC_SCRAM_SHA_256_HASH_SIZE)
             = HiTable[<<"SHA_256", StrVal(heap, scram.pass),
                         Take(scram.decoded_salt,
                              MONGOC_SCRAM_SHA_256_HASH_SIZE - 4),
                         scram.iterations>>]

\* A password with the DEL character in it was refused.
C19_DelRefused ==
  /\ Sha256Second
  /\ StrVal(heap, scram.pass) = <<127, Ascii.p>>
  /\ ~rval /\ error.msg = IcuError
  /\ scram.hashed_password = NULL

\* The cells that hold a password or a hashed password: the session's, its
\* cache entry's and the entry's the caller holds (hd).
SecretCells(s, h, hd) ==
  {s.pass, s.hashed_password, EntryAt(h, s.cache).hashed_password,
   EntryAt(h, hd).hashed_password} \ {NULL}

AllZero(text) == \A k \in 1..Len(text) : text[k] = 0

\* C20: whatever set_pass, set_cache, step, destroy and cache_destroy release
\* has been overwritten with zeros over its string length: a cell that held
\* the password, the session's or a cache entry's hashed_password is released
\* as zeros of its length, a cell used and released within one call (step 2's
\* tmp and prepared password) is left as zeros, and every string still
\* allocated after the call is one the session or a cache entry points to.
C20_ZeroizationBeforeRelease ==
  [][~crashed'
     => /\ \A a \in SecretCells(scram, heap, held) :
             heap'[a].kind = "free"
             => heap'[a].val = Zeros(Len(heap[a].val))
        /\ \A a \in Addrs \ {scram.user} :
             (heap'[a].kind = "free" /\ heap'[a] # heap[a])
             => AllZero(heap'[a].val)
        /\ \A a \in Addrs :
             heap'[a].kind = "str"
             => a \in SecretCells(scram', heap', held') \cup {scram'.user}]_vars

\* A second call of a session that was given a cache entry failed after the
\* password was prepared: tmp and the prepared password are released, zeroed.
C20_TemporariesZeroed ==
  /\ Stepped /\ scram.step = 2 /\ ~rval
  /\ scram.algorithm = "SHA_1"
  /\ scram.cache # NULL
  /\ scram.hashed_password = NULL
  /\ \E a \in Addrs :
       /\ heap[a].kind = "free"
       /\ heap[a].val = Zeros(Len(_mongoc_hex_md5(UserU \o MongoSep \o PassP)))
  /\ \E a \in Addrs :
       /\ heap[a].kind = "free"
       /\ heap[a].val = Zeros(Len(UserU \o MongoSep \o PassP))

\* A continuation byte: 10xxxxxx.
IsContinuation(b) == b \div 64 = 2

\* The code point a well-formed sequence of n bytes at s[k] encodes, by the
\* definition of UTF-8 (RFC 3629); -1 where there is none: a byte that starts
\* no sequence, a sequence cut short, an overlong form, a surrogate, a value
\* above U+10FFFF.
ScalarAt(s, k) ==
  LET n == IF s[k] < 128 THEN 1
           ELSE IF s[k] \div 32 = 6 THEN 2
           ELSE IF s[k] \div 16 = 14 THEN 3
           ELSE IF s[k] \div 8 = 30 THEN 4
           ELSE 0
      Rest(j) == s[k + j] % 64
      cp == CASE n = 1 -> s[k]
              [] n = 2 -> (s[k] % 32) * 64 + Rest(1)
              [] n = 3 -> (s[k] % 16) * 4096 + Rest(1) * 64 + Rest(2)
              [] n = 4 -> (s[k] % 8) * 262144 + Rest(1) * 4096 + Rest(2) * 64
                          + Rest(3)
      least == CASE n = 1 -> 0 [] n = 2 -> 128 [] n = 3 -> 2048
                 [] n = 4 -> 65536
  IN IF n = 0 \/ k + n - 1 > Len(s) THEN [n |-> 0, cp |-> -1]
     ELSE IF \E j \in 1..(n - 1) : ~IsContinuation(s[k + j])
     THEN [n |-> 0, cp |-> -1]
     ELSE IF cp < least \/ cp \in 55296..57343 \/ cp > 1114111
     THEN [n |-> 0, cp |-> -1]
     ELSE [n |-> n, cp |-> cp]

\* The number of code points of s[k..] if it is well-formed, -1 if not.
RECURSIVE CodePoints(_, _)
CodePoints(s, k) ==
  IF k > Len(s) THEN 0
  ELSE IF s[k] = 0 THEN 0
  ELSE IF ScalarAt(s, k).n = 0 THEN -1
  ELSE LET rest == CodePoints(s, k + ScalarAt(s, k).n)
       IN IF rest = -1 THEN -1 ELSE rest + 1

\* C21: _mongoc_utf8_string_length returns the number of code points of a
\* well-formed UTF-8 string and -1 for a string with a lone continuation
\* byte, an overlong encoding, a surrogate, a lead byte above 0xF4 or a
\* sequence cut short.
C21_Utf8Validation ==
  lastop = "utf8_string_length" => utf8_length = CodePoints(utf8_string, 1)

\* A letter and the surrogate U+D800 (ED A0 80) were refused.
C21_SurrogateRefused ==
  /\ lastop = "utf8_string_length"
  /\ utf8_string = <<65, 237, 160, 128>>
  /\ utf8_length = -1

\* The decimal digits of a natural number.
RECURSIVE DecimalText(_)
DecimalText(n) ==
  IF n < 10 THEN <<Ascii.zero + n>>
  ELSE DecimalText(n \div 10) \o <<Ascii.zero + (n % 10)>>

\* A decimal text without its leading zeros.
RECURSIVE StripZeros(_)
StripZeros(text) ==
  IF Len(text) > 1 /\ text[1] = Ascii.zero THEN StripZeros(Tail(text))
  ELSE text

\* C22: whenever the second call returns true, the iterations recorded in the
\* session are at least 4096 and are the number the server's i attribute
\* denotes in decimal.
C22_IterationsAsSent ==
  (/\ Stepped /\ scram.step = 2 /\ rval
   /\ LastFirst.status = "ok" /\ LastI.set)
  => /\ scram.iterations >= MinIterations
     /\ IsDecimal(LastI.val)
     /\ DecimalText(scram.iterations) = StripZeros(LastI.val)

\* The length of the base64 text of n bytes.
EncodedLength(n) == 4 * ((n + 2) \div 3)

\* The length of the complete client-final message for the server's r.
ClientFinalLength(s, val_r) ==
  Len(ClientFinalWithoutProof(val_r)) + Len(ClientFinalProofKey)
  + EncodedLength(_scram_hash_size(s.algorithm))

\* C23: a second call whose outbufmax is too small for the complete
\* client-final message returns false with a protocol error, and a second
\* call that returns true has written the base64 proof behind ",p=".
C23_FinalOverflowIsError ==
  (Stepped /\ scram.step = 2 /\ LastFirst.status = "ok" /\ LastR.set)
  => /\ lastin.outbufmax < ClientFinalLength(scram, LastR.val)
        => (~rval /\ error.code = "PROTOCOL_ERROR")
     /\ rval => outbuflen = ClientFinalLength(scram, LastR.val)

\* The session with the presecrets of its cache entry in place of its own.
WithEntryPresecrets(s, h) ==
  [s EXCEPT !.hashed_password = EntryAt(h, s.cache).hashed_password,
            !.decoded_salt = EntryAt(h, s.cache).decoded_salt,
            !.iterations = EntryAt(h, s.cache).iterations]

\* C24: the cache entry a session holds after a third call that returned
\* true has a hashed_password, iterations of at least 4096, and a
\* salted_password that is Hi(hashed_password, decoded_salt, iterations)
\* under the session's algorithm.
C24_CommittedEntryDerived ==
  (Stepped /\ scram.step = 3 /\ rval)
  => /\ CacheView(heap, scram.cache).present
     /\ CacheView(heap, scram.cache).has_password
     /\ CacheView(heap, scram.cache).iterations >= MinIterations
     /\ CacheView(heap, scram.cache).salted_password
          = FreshSecrets(WithEntryPresecrets(scram, heap), heap).salted_password

\* The cache entry and the session have the same presecrets: both have a
\* hashed_password and the strings are equal, the iterations are equal, and
\* the salts agree in their first hash_size - 4 bytes.
SamePresecrets(h, s) ==
  LET c == EntryAt(h, s.cache)
      size == _scram_hash_size(s.algorithm) - 4
  IN /\ c.hashed_password # NULL /\ s.hashed_password # NULL
     /\ StrVal(h, c.hashed_password) = StrVal(h, s.hashed_password)
     /\ c.iterations = s.iterations
     /\ Take(c.decoded_salt, size) = Take(s.decoded_salt, size)

\* C25: _mongoc_scram_cache_has_presecrets returns true exactly if the cache
\* entry and the session have both a hashed_password and the strings are
\* equal, their iterations are equal and their decoded_salt agree in the
\* first hash_size - 4 bytes, whatever lies behind them.
C25_HasPresecrets ==
  lastop = "has_presecrets" => (presecrets_match <=> SamePresecrets(heap, scram))

\* C25, amended: _mongoc_scram_cache_has_presecrets returns true exactly if
\* the cache entry and the session have both a hashed_password and the
\* strings are equal, their iterations are equal and their decoded_salt
\* buffers are equal in all their 64 bytes; the algorithm plays no part.
C25_HasPresecretsWholeSalt ==
  lastop = "has_presecrets"
  => (presecrets_match
      <=> /\ EntryAt(heap, scram.cache).hashed_password # NULL
          /\ scram.hashed_password # NULL
          /\ StrVal(heap, EntryAt(heap, scram.cache).hashed_password)
               = StrVal(heap, scram.hashed_password)
          /\ EntryAt(heap, scram.cache).iterations = scram.iterations
          /\ \A k \in 1..MONGOC_SCRAM_B64_HASH_MAX_SIZE :
               EntryAt(heap, scram.cache).decoded_salt[k]
                 = scram.decoded_salt[k])

\* A SHA-1 session and an entry that agree in password, iterations and the
\* 16 bytes of the salt, the entry's buffer holding more behind them: no
\* match.
C25_TailDiffers ==
  /\ lastop = "has_presecrets"
  /\ scram.algorithm = "SHA_1"
  /\ SamePresecrets(heap, scram)
  /\ EntryAt(heap, scram.cache).decoded_salt # scram.decoded_salt
  /\ ~presecrets_match


\* The length of client-first-message: "n,,n=", the escaped user, ",r=" and
\* the 32 characters of the nonce.
ClientFirstLength(s, h) == 5 + Len(Escape(StrVal(h, s.user))) + 3 + 32

\* C26: after a call that returned true *outbuflen is the length of the
\* message of that call, whatever it held on entry: the length of
\* client-first-message after the first call, of the complete client-final
\* message after the second, and 0 after the third.
C26_ReportedLength ==
  (Stepped /\ rval /\ scram.user # NULL)
  => /\ scram.step = 1 => outbuflen = ClientFirstLength(scram, heap)
     /\ (scram.step = 2 /\ LastFirst.status = "ok" /\ LastR.set)
          => outbuflen = ClientFinalLength(scram, LastR.val)
     /\ scram.step = 3 => outbuflen = 0

\* C26 for the calls that found *outbuflen 0 and the largest buffer.
C26_FromZero ==
  (lastin.outbuflen = 0 /\ lastin.outbufmax = BufMax) => C26_ReportedLength


RECURSIVE HiU(_, _, _, _)
\* U1 = HMAC(password, salt || 00 00 00 01), Ui = HMAC(password, U(i-1)).
HiU(algorithm, password, salt, i) ==
  IF i <= 1
  THEN mongoc_crypto_hmac(algorithm, password, salt \o <<0, 0, 0, 1>>)
  ELSE mongoc_crypto_hmac(algorithm, password,
                          HiU(algorithm, password, salt, i - 1))

RECURSIVE XorOfU(_, _, _, _)
\* U1 XOR U2 XOR ... XOR Uc.
XorOfU(algorithm, password, salt, c) ==
  IF c <= 1 THEN HiU(algorithm, password, salt, 1)
  ELSE XorBytes(XorOfU(algorithm, password, salt, c - 1),
                HiU(algorithm, password, salt, c),
                _scram_hash_size(algorithm))

C27_Step2RunsHi ==
  (Stepped /\ scram.step = 2 /\ rval /\ ~CacheHit
   /\ scram.hashed_password # NULL)
  => /\ hi_ran
     /\ scram.iterations >= MinIterations
     /\ scram.salted_password
          = _mongoc_scram_salt_password(
              scram, StrVal(heap, scram.hashed_password), scram.decoded_salt,
              _scram_hash_size(scram.algorithm) - 4,
              scram.iterations).salted_password


\* C28: a second call on a session whose pass is unset returns (it does not
\* read through the missing password), returns false with an error, and
\* derives nothing: Hi does not run and no hashed password is recorded.
C28_PasswordRequired ==
  (lastop = "step" /\ calls = 2 /\ scram.pass = NULL)
  => /\ ~crashed
     /\ ~rval
     /\ error.domain = "SCRAM"
     /\ ~hi_ran
     /\ scram.hashed_password = NULL

\* C28 without the fault: a second call without a password that returned.
C28_PlaceholderRefused ==
  (Stepped /\ calls = 2 /\ scram.pass = NULL)
  => (~rval /\ ~hi_ran)


NonceError ==
  "SCRAM Failure: could not generate a cryptographically secure nonce in sasl step 1"

\* The first call of a session with a user name, as far as the nonce goes.
NonceDrawn ==
  (Stepped /\ scram.step = 1 /\ scram.user # NULL)
  => /\ rval => /\ scram.encoded_nonce_len = 32
                /\ Len(lastin.rand.bytes) = NonceSize
                /\ Take(scram.encoded_nonce, 32) = B64Encode(lastin.rand.bytes)
                /\ B64Decode(Take(scram.encoded_nonce, 32)) = lastin.rand.bytes
     /\ ~lastin.rand.ok => (~rval /\ error = ProtocolError(NonceError))

\* C29: a first call that returned true left the base64 text of the 24
\* random bytes, 32 characters, as the client nonce; a first call whose
\* random source failed returned false with a protocol error; and no later
\* call returns true on a session whose client nonce is empty.
C29_ClientNonce ==
  /\ NonceDrawn
  /\ (Stepped /\ scram.step >= 2 /\ scram.encoded_nonce_len = 0) => ~rval


\* What a session has recorded: presecrets, secrets and its cache entry.
Recorded(s, h) ==
  [hashed_password |-> s.hashed_password,
   password |-> StrVal(h, s.hashed_password),
   iterations |-> s.iterations,
   decoded_salt |-> s.decoded_salt,
   salted_password |-> s.salted_password,
   client_key |-> s.client_key,
   server_key |-> s.server_key,
   cache |-> s.cache,
   entry |-> IF s.cache = NULL THEN ZeroEntry ELSE EntryAt(h, s.cache),
   entry_password |-> IF s.cache = NULL THEN <<>>
                      ELSE StrVal(h, EntryAt(h, s.cache).hashed_password)]

\* C30: a second call that returns false leaves the session's presecrets
\* (hashed_password, iterations, decoded_salt), its secrets (salted_password,
\* client_key, server_key) and its cache entry as they were before the call.
C30_FailedStep2RecordsNothing ==
  [][(lastop' = "step" /\ ~crashed' /\ scram'.step = 2 /\ ~rval')
     => Recorded(scram', heap') = Recorded(scram, heap)]_vars

\* A second call on a session with a cache entry was refused for its
\* iteration count.
C30_LowIterationsWithCache ==
  /\ Stepped /\ scram.step = 2 /\ ~rval
  /\ scram.cache # NULL
  /\ error.msg = "SCRAM Failure: iterations must be at least 4096"


\* A code point lies in one of the ranges of a table.
InRanges(code, table) ==
  \E j \in 1..(Len(table) \div 2) :
    table[2 * j - 1] <= code /\ code <= table[2 * j]

RECURSIVE ScalarsFrom(_, _)
\* The code points of the well-formed string s from s[k] on, up to its
\* terminator.
ScalarsFrom(s, k) ==
  IF k > Len(s) THEN <<>>
  ELSE IF s[k] = 0 \/ ScalarAt(s, k).n = 0 THEN <<>>
  ELSE <<ScalarAt(s, k).cp>> \o ScalarsFrom(s, k + ScalarAt(s, k).n)

RECURSIVE SaslPrepMap(_)
\* RFC 4013, 2.1: a non-ASCII space becomes U+0020, a character that is
\* commonly mapped to nothing is left out.
SaslPrepMap(cps) ==
  IF cps = <<>> THEN <<>>
  ELSE (IF InRanges(Head(cps), non_ascii_space_character_ranges)
        THEN <<32>>
        ELSE IF InRanges(Head(cps), commonly_mapped_to_nothing_ranges)
        THEN <<>>
        ELSE <<Head(cps)>>) \o SaslPrepMap(Tail(cps))

\* A prohibited or an unassigned code point among cps.
HasProhibited(cps) ==
  \E j \in 1..Len(cps) :
    \/ InRanges(cps[j], prohibited_output_ranges)
    \/ InRanges(cps[j], unassigned_codepoint_ranges)

\* RFC 3454, 6: an LCat beside a RandALCat character, or a RandALCat
\* character in a string that does not begin and end with one.
BreaksBidi(cps) ==
  LET IsR(j) == InRanges(cps[j], RandALCat_bidi_ranges)
      IsL(j) == InRanges(cps[j], LCat_bidi_ranges)
  IN (\E j \in 1..Len(cps) : IsR(j))
     /\ \/ \E j \in 1..Len(cps) : IsL(j)
        \/ ~IsR(1)
        \/ ~IsR(Len(cps))

\* The password of the last _mongoc_sasl_prep call, mapped.
PreparedCodes == SaslPrepMap(ScalarsFrom(utf8_string, 1))

\* _mongoc_sasl_prep was called with a well-formed password.
PrepCalled ==
  lastop = "sasl_prep" /\ CodePoints(utf8_string, 1) # -1

\* C31: for a well-formed password with no prohibited or unassigned code
\* point that keeps the bidi rules, _mongoc_sasl_prep with a Unicode
\* library returns a string, the password with every non-ASCII space as
\* U+0020, without the characters mapped to nothing and with every other
\* code point as it was.
C31_SaslPrepMapping ==
  (PrepCalled /\ ~HasProhibited(PreparedCodes) /\ ~BreaksBidi(PreparedCodes))
  => /\ ~unicode_ret.null
     /\ unicode_ret.text = Utf8Text(PreparedCodes)

\* C31 for what the map step is left with: the code points it keeps are
\* those of the mapped password.
C31_MappedCodes ==
  (PrepCalled /\ ~HasProhibited(PreparedCodes) /\ ~BreaksBidi(PreparedCodes))
  => unicode_ret.codes = PreparedCodes


\* A well-formed password that SASLprep has to refuse.
PrepRefusable ==
  PrepCalled /\ (HasProhibited(PreparedCodes) \/ BreaksBidi(PreparedCodes))

\* C32: _mongoc_sasl_prep with a Unicode library fails with a SCRAM protocol
\* error for a password that after mapping has a prohibited or an
\* unassigned code point, an LCat beside a RandALCat code point, or a
\* RandALCat code point without one at its beginning and at its end.
C32_SaslPrepRejection ==
  PrepRefusable
  => /\ unicode_ret.null
     /\ error.domain = "SCRAM" /\ error.code = "PROTOCOL_ERROR"

\* C32 without the error record: no string is returned for such a password.
C32_NothingReturned == PrepRefusable => unicode_ret.null

\* C32 within the function: the prohibit loop and the bidi test tell the
\* passwords to refuse from the others.
C32_BidiFlags ==
  PrepCalled
  => (BreaksBidi(PreparedCodes)
        <=> /\ unicode_ret.bidi.RandALCar
            /\ \/ unicode_ret.bidi.LCat
               \/ ~InRanges(unicode_ret.codes[1], RandALCat_bidi_ranges)
               \/ ~InRanges(unicode_ret.codes[Len(unicode_ret.codes)],
                            RandALCat_bidi_ranges))


\* C33: _mongoc_is_code_in_table (code, table, size) returns true exactly
\* when code lies in one of the ranges table[i]..table[i + 1], i even and
\* below size; for a code outside every range of a table that is not empty
\* it returns false.
C33_CodeInTable ==
  lastop = "is_code_in_table"
  => (unicode_ret.found <=> InRanges(unicode_arg.code, unicode_arg.table))

\* C33 from one side: a code inside a range is found.
C33_InsideFound ==
  (lastop = "is_code_in_table"
   /\ InRanges(unicode_arg.code, unicode_arg.table))
  => unicode_ret.found

\* C33 for the empty table: nothing is found in it.
C33_EmptyTable ==
  (lastop = "is_code_in_table" /\ unicode_arg.table = <<>>)
  => ~unicode_ret.found


\* The string of the last round trip is one well-formed character.
OneScalar ==
  /\ lastop = "round_trip"
  /\ ScalarAt(utf8_string, 1).n = Len(utf8_string)

\* C34: a scalar value given as a well-formed sequence of 1 to 4 bytes is
\* decoded by _mongoc_utf8_to_unicode to a code point that
\* _mongoc_unicode_to_utf8 writes as the same bytes, returning their number,
\* and _mongoc_unicode_codepoint_length returns that number too.
C34_CodePointRoundTrip ==
  OneScalar
  => /\ unicode_arg.code = ScalarAt(utf8_string, 1).cp
     /\ unicode_ret.encoded.out = utf8_string
     /\ unicode_ret.encoded.ret = Len(utf8_string)
     /\ unicode_ret.length = Len(utf8_string)

\* C34 for the decoding alone.
C34_Decoded ==
  OneScalar => unicode_arg.code = ScalarAt(utf8_string, 1).cp

\* C34 for an unsigned int that lies where objects of a program lie, above
\* 0x10FFFF: nothing is written and both lengths are -1.
C34_HighAddress ==
  (OneScalar /\ unicode_arg.c > MaxCodePoint)
  => /\ unicode_ret.encoded = [ret |-> -1, out |-> <<>>]
     /\ unicode_ret.length = -1

====
